---- MODULE Spec2Model ----
(***************************************************************************)
(* Model of the normalization core of fda_ph_scraper: the text             *)
(* canonicalizer (normalize_text), the base/salt splitter                  *)
(* (extract_base_and_salts), the form/route inference                      *)
(* (infer_form_and_route), the brand/generic flip detector and the batch   *)
(* builder build_brand_map with its process-wide lazy caches.              *)
(*                                                                         *)
(* A Python string is a sequence of chunks.  A chunk [w, c] is a run of    *)
(* characters w written in case c ("l" lower, "t" Title, "u" UPPER); the   *)
(* chunk alphabet is cut so that every literal the code searches for is a  *)
(* fixed chunk sequence (microgram = micro.gram, milliliter = milli.liter, *)
(* "milli litre" = milli." ".litre), which makes substring search a        *)
(* subsequence search.  Two strings are equal iff their chunk sequences    *)
(* are equal.                                                              *)
(***************************************************************************)
EXTENDS Integers, Sequences, FiniteSets, TLC

VARIABLES
    text,        \* normalize_text: the argument of the call under test
    norm_pc,     \* normalize_text: "start", "once", "twice"
    norm1,       \* normalize_text(text)
    norm2,       \* normalize_text(normalize_text(text))
    split_arg,   \* extract_base_and_salts: the argument
    split_pc,    \* extract_base_and_salts: "start", "done"
    split_out,   \* extract_base_and_salts(raw_text)
    flip_brand,  \* _detect_brand_generic_flip: brand
    flip_generic,    \* _detect_brand_generic_flip: generic
    flip_pc,     \* _detect_brand_generic_flip: "start", "done"
    flip_locals, \* _detect_brand_generic_flip: brand_is_generic, generic_is_generic
    flip_result, \* _detect_brand_generic_flip: what the call returned or that it raised
    reference,   \* the files at possible_paths of _load_drugbank_data
    aho_available,   \* whether "import ahocorasick" succeeds in this process
    FORM_WORDS,  \* routes_forms.FORM_WORDS as sorted at import
    _DRUGBANK_GENERICS_CACHE,
    _DRUGBANK_SYNONYMS_CACHE,
    _DRUGBANK_AUTOMATON_CACHE,
    loads,       \* how many times _load_drugbank_data built its sets
    automaton_attempts,  \* how many times _build_aho_automaton went past its cache check
    automaton_builds,    \* how many automatons were made
    rows,        \* build_brand_map: the argument
    row_idx,     \* build_brand_map: position of the loop in rows
    seen,        \* build_brand_map: seen
    out,         \* build_brand_map: out
    flip_count,  \* build_brand_map: flip_count
    map_pc,      \* build_brand_map: "start", "loop", "done", "raised"
    drugbank_generics,   \* build_brand_map: drugbank_generics
    map_automaton,   \* build_brand_map: automaton
    result,      \* build_brand_map: the list returned
    wpc,         \* per worker: where it is in the two lazy loaders
    wlocal,      \* per worker: its local generics, synonyms, automaton
    form_a,      \* form helpers: the form of the call under test
    form_b,      \* forms_are_equivalent: the second form
    form_pc,     \* form helpers: "start", then which helper ran and how often
    form_out,    \* form helpers: what the calls returned
    vaccine_arg, \* vaccine helpers: the acronym of the call under test
    vaccine_pc,  \* vaccine helpers: "start", "expanded", "done"
    vaccine_out, \* vaccine helpers: the components and the acronym found for them
    run_pc,      \* scraper runs: where the run is
    run_args,    \* scraper runs: the arguments of the call
    run_files,   \* scraper runs: the files of the output and raw directories
    run_locals,  \* scraper runs: the local variables of the function
    run_result   \* scraper runs: what was returned or raised

normVars == <<text, norm_pc, norm1, norm2>>
splitVars == <<split_arg, split_pc, split_out>>
flipVars == <<flip_brand, flip_generic, flip_pc, flip_locals, flip_result>>
procVars == <<reference, aho_available, FORM_WORDS, _DRUGBANK_GENERICS_CACHE,
              _DRUGBANK_SYNONYMS_CACHE, _DRUGBANK_AUTOMATON_CACHE, loads,
              automaton_attempts, automaton_builds>>
mapVars == <<rows, row_idx, seen, out, flip_count, map_pc, drugbank_generics,
             map_automaton, result>>
workerVars == <<wpc, wlocal>>
formVars == <<form_a, form_b, form_pc, form_out>>
vaccineVars == <<vaccine_arg, vaccine_pc, vaccine_out>>
runVars == <<run_pc, run_args, run_files, run_locals, run_result>>
tableVars == <<formVars, vaccineVars, runVars>>

vars == <<normVars, splitVars, flipVars, procVars, mapVars, workerVars, tableVars>>

----------------------------------------------------------------------------
(* Chunks and character classes                                            *)

L(w) == [w |-> w, c |-> "l"]
T(w) == [w |-> w, c |-> "t"]
U(w) == [w |-> w, c |-> "u"]

SP == L(" ")

\* str.isspace(): the whitespace chunks
SpaceChunks == {" "}
\* the punctuation the strip regex of normalize_text keeps: % / + . -
KeptPunct == {"%", "/", "+", ".", "-"}
\* characters outside [\w%/+.- ]: replaced by a blank
StrippedPunct == {"(", ")", ",", "&", ":"}
\* decimal digits (str.isdigit)
DigitChunks == {"0", "1", "2", "3", "5", "7", "10", "13", "15", "20", "23", "500"}
\* Unicode combining marks (unicodedata.combining(c) # 0)
CombiningChunks == {"u0301"}
\* letters outside a-z: MICRO SIGN + g, GREEK MU + g, e-acute
MicroSignG == "u00b5g"
GreekMuG == "u03bcg"
EAcute == "u00e9"

IsSpace(ch) == ch.w \in SpaceChunks
IsDigit(ch) == ch.w \in DigitChunks
IsCombining(ch) == ch.w \in CombiningChunks
IsPunct(ch) == ch.w \in KeptPunct \cup StrippedPunct
\* a chunk of letters
IsAlpha(ch) == ~IsSpace(ch) /\ ~IsDigit(ch) /\ ~IsPunct(ch) /\ ~IsCombining(ch)
\* \w of the re module on str: letters, digits (and "_")
IsWordChar(ch) == IsAlpha(ch) \/ IsDigit(ch)
\* first / last character of the chunk is in [a-z]
FirstIsAZ(ch) == IsAlpha(ch) /\ ch.c = "l" /\ ch.w \notin {MicroSignG, GreekMuG, EAcute}
LastIsAZ(ch) == IsAlpha(ch) /\ ch.c = "l" /\ ch.w \notin {EAcute}

\* str.lower() / str.upper() of one chunk: only letters have case
LowerChunk(ch) == IF IsAlpha(ch) THEN [ch EXCEPT !.c = "l"] ELSE ch
UpperChunk(ch) == IF IsAlpha(ch) THEN [ch EXCEPT !.c = "u"] ELSE ch

lower(s) == [i \in 1..Len(s) |-> LowerChunk(s[i])]
upper(s) == [i \in 1..Len(s) |-> UpperChunk(s[i])]

RECURSIVE lstrip(_)
lstrip(s) == IF s # <<>> /\ IsSpace(Head(s)) THEN lstrip(Tail(s)) ELSE s

RECURSIVE rstrip(_)
rstrip(s) ==
    IF s # <<>> /\ IsSpace(s[Len(s)]) THEN rstrip(SubSeq(s, 1, Len(s) - 1)) ELSE s

\* str.strip()
strip(s) == rstrip(lstrip(s))

\* s[i:] and s[:i] with 1-based positions
From(s, i) == SubSeq(s, i, Len(s))
Upto(s, i) == SubSeq(s, 1, i)

StartsWith(s, pat) == Len(pat) <= Len(s) /\ SubSeq(s, 1, Len(pat)) = pat

\* str.replace(pat, rep): leftmost, non-overlapping, all occurrences
RECURSIVE replace(_, _, _)
replace(s, pat, rep) ==
    IF s = <<>> THEN <<>>
    ELSE IF StartsWith(s, pat) THEN rep \o replace(From(s, Len(pat) + 1), pat, rep)
    ELSE <<Head(s)>> \o replace(Tail(s), pat, rep)

\* re.sub of a one-chunk pattern guarded by a look-behind and a look-ahead:
\* chunk i is replaced when it is in pats, its left neighbour fails LeftBad and
\* its right neighbour fails RightBad
SubGuarded(s, pats, rep, LeftBad(_), RightBad(_)) ==
    [i \in 1..Len(s) |->
        IF /\ s[i] \in pats
           /\ (i = 1 \/ ~LeftBad(s[i - 1]))
           /\ (i = Len(s) \/ ~RightBad(s[i + 1]))
        THEN rep ELSE s[i]]

\* re.sub(r"X+", " ", s) for a character class X: every maximal run of chunks
\* satisfying InClass becomes one blank
\* placeholder of a deleted position; never part of a string
Gone == [w |-> "", c |-> "l"]

SubRuns(s, InClass(_)) ==
    LET marked == [i \in 1..Len(s) |->
                     IF InClass(s[i])
                     THEN IF i < Len(s) /\ InClass(s[i + 1]) THEN Gone ELSE SP
                     ELSE s[i]]
    IN SelectSeq(marked, LAMBDA ch : ch # Gone)

----------------------------------------------------------------------------
(* Python values: a str, None, or an int                                   *)

Str(s) == [t |-> "str", s |-> s, n |-> 0]
PyNone == [t |-> "none", s |-> <<>>, n |-> 0]
PyInt(n) == [t |-> "int", s |-> <<>>, n |-> n]

\* truth value of a Python value (bool(v))
Truthy(v) == (v.t = "str" /\ v.s # <<>>) \/ (v.t = "int" /\ v.n # 0)

----------------------------------------------------------------------------
(* Text canonicalizer                                                      *)

\* unicodedata.normalize("NFKD", s): MICRO SIGN becomes GREEK MU, e-acute
\* becomes e followed by COMBINING ACUTE
RECURSIVE nfkd(_)
nfkd(s) ==
    IF s = <<>> THEN <<>>
    ELSE LET ch == Head(s) IN
         (IF ch.w = MicroSignG THEN <<[ch EXCEPT !.w = GreekMuG]>>
          ELSE IF ch.w = EAcute THEN <<[ch EXCEPT !.w = "e"], L("u0301")>>
          ELSE <<ch>>) \o nfkd(Tail(s))

\* "".join(c for c in s if not unicodedata.combining(c))
StripCombining(s) == SelectSeq(s, LAMBDA ch : ~IsCombining(ch))

IsStripped(ch) == ch.w \in StrippedPunct

\* _GM_TOKEN_RX.sub("g", text)
_normalize_unit_tokens(s) ==
    SubGuarded(s, {L("gm"), L("gms")}, L("g"), LastIsAZ, FirstIsAZ)

\* normalize_text(s) for a Python value s; the result is always a str
normalize_text(v) ==
    IF v.t # "str" THEN <<>> ELSE
    LET s1 == StripCombining(nfkd(v.s))
        s2 == lower(s1)
        s3 == SubGuarded(s2, {L("iv")}, L("intravenous"), IsWordChar, IsWordChar)
        s4 == SubRuns(s3, IsStripped)
        s5 == replace(replace(replace(s4, <<L("micro"), L("gram")>>, <<L("mcg")>>),
                              <<L(GreekMuG)>>, <<L("mcg")>>),
                      <<L(MicroSignG)>>, <<L("mcg")>>)
        s6 == replace(replace(SubGuarded(s5, {L("cc")}, L("ml"), LastIsAZ, FirstIsAZ),
                              <<L("milli"), SP, L("litre")>>, <<L("ml")>>),
                      <<L("milli"), L("liter")>>, <<L("ml")>>)
        s7 == _normalize_unit_tokens(s6)
        s8 == replace(s7, <<L("milli"), L("gram")>>, <<L("mg")>>)
        s9 == replace(s8, <<L("polymixin")>>, <<L("polymyxin")>>)
        s10 == replace(s9, <<L("hydrochlorde")>>, <<L("hydrochloride")>>)
    IN strip(SubRuns(s10, IsSpace))

----------------------------------------------------------------------------
(* Reference tables (unified_constants.py)                                 *)

\* STOPWORDS: the one-word entries, then the table as upper-case strings
STOPWORDS_WORDS ==
    {"acetated", "acid", "acids", "adult", "agent", "agents", "ampoule",
     "ampul", "ampule", "and", "antiseptic", "approx", "approximately",
     "aqueous", "as", "attenuated", "bag", "balanced", "based", "biphasic",
     "blue", "bottle", "bottles", "box", "boxes", "can", "cans", "capsule",
     "capsules", "care", "carpule", "cartridge", "cell", "chewable",
     "chick", "cleanser", "coated", "combi", "complex", "concentrate",
     "container", "content", "count", "cream", "degraded", "derivative",
     "diabetes", "dialysate", "dialysis", "dibasic", "diluent", "dilution",
     "dose", "doses", "drop", "drops", "drugs", "drum", "during", "durules",
     "effervescent", "element", "elemental", "elements", "embryo", "equine",
     "equiv", "equivalent", "fever", "filled", "fluid", "for", "forming",
     "formula", "formulation", "free", "gallon", "gas", "gel", "glass",
     "has", "hemodialysis", "hepatic", "hepatitis", "high", "human",
     "hypertonic", "in", "inactivated", "infants", "infusion", "infusions",
     "injectable", "injection", "injections", "intramuscular",
     "intravenous", "irrigating", "irrigation", "isophane", "jelly",
     "junior", "kcal", "lactated", "lipid", "liquid", "live", "lotion",
     "lyophilized", "maintenance", "mc", "medicated", "medicines",
     "metered", "micronutrient", "million", "mixture", "modified",
     "monobasic", "monodose", "multi", "multidose", "multiple", "nacl",
     "nasal", "nebule", "needle", "none", "normal", "not", "nutrition",
     "of", "ointment", "ophthalmic", "or", "oral", "pack", "paint",
     "parenteral", "patch", "pedia", "pediatric", "per", "percent",
     "petroleum", "plain", "plastic", "plus", "pouch", "powder", "powders",
     "pre", "preparation", "purified", "ratio", "recombinant", "rectal",
     "regular", "rehydration", "release", "renal", "replacement",
     "respiratory", "rose", "sachet", "sachets", "saline", "salt", "salts",
     "serum", "single", "skin", "soft", "softgel", "softgels", "soln",
     "soluble", "solution", "solutions", "solvent", "spinal", "spray",
     "standard", "sterile", "subcutaneous", "surgical", "suspension",
     "syringe", "syrup", "tablet", "tablets", "than", "this", "to",
     "topical", "trace", "tube", "tubes", "unit", "units", "vaginal",
     "vehicle", "vial", "vials", "vitamin", "vitamins", "w", "water",
     "with", "without", "yellow"}

STOPWORDS ==
    {<<U(w)>> : w \in STOPWORDS_WORDS} \cup
    {<<U("equiv"), L(".")>>, <<U("eye"), SP, U("drops")>>,
     <<U("fat"), L("-"), U("soluble")>>, <<U("pre"), SP, U("filled")>>,
     <<U("pre"), L("-"), U("filled")>>, <<U("w"), L("/")>>,
     <<U("water"), L("-"), U("soluble")>>}

\* SALT_TOKENS
SALT_TOKENS_WORDS ==
    {"acetate", "acetonide", "aluminium", "aluminum", "ammonium",
     "anhydrous", "ascorbate", "axetil", "barium", "benzathine", "benzoate",
     "besilate", "besylate", "bicarbonate", "bisulfate", "bitartrate",
     "bromide", "butyrate", "calcium", "carbonate", "chloride", "citrate",
     "clavulanate", "copper", "cr", "decanoate", "diacetate", "dihydrate",
     "dihydrochloride", "dinitrate", "diphosphate", "dipropionate",
     "disodium", "docusate", "er", "ferric", "ferrous", "fluoride",
     "folinate", "fumarate", "furoate", "fusidate", "gluconate", "glyceryl",
     "hcl", "hemihydrate", "hemisuccinate", "hydrate", "hydrobromide",
     "hydrochloride", "hydroiodide", "hydroxide", "iodide", "iron",
     "lactate", "lithium", "magnesium", "malate", "maleate", "manganese",
     "meglumine", "mesilate", "mesylate", "monohydrate", "nitrate",
     "nitrite", "oleate", "oxalate", "oxide", "palmitate", "pamoate",
     "pentahydrate", "phosphate", "polymerisate", "potassium", "propionate",
     "salicylate", "selenite", "silver", "sodium", "sr", "stearate",
     "succinate", "succinylated", "sulfate", "sulfonate", "sulphate",
     "tartrate", "thiosulfate", "tosylate", "trihydrate", "trinitrate",
     "trometamol", "tromethamine", "tromethamol", "valerate", "xr", "zinc"}

SALT_TOKENS ==
    {<<U(w)>> : w \in SALT_TOKENS_WORDS}

\* UNIT_TOKENS
UNIT_TOKENS_WORDS ==
    {"cc", "g", "gm", "gms", "iu", "kg", "l", "lsu", "mcg", "meq", "meqs",
     "mg", "ml", "mmol", "mol", "mu", "pct", "ug", "unit", "units"}

UNIT_TOKENS ==
    {<<U(w)>> : w \in UNIT_TOKENS_WORDS} \cup
    {<<L("%")>>, <<U("iu"), L("/"), U("ml")>>,
     <<U("mcg"), L("/"), U("ml")>>, <<U("mg"), L("/"), L("5"), U("ml")>>,
     <<U("mg"), L("/"), U("l")>>, <<U("mg"), L("/"), U("ml")>>}

\* SALT_CATIONS
SALT_CATIONS_WORDS ==
    {"aluminium", "aluminum", "ammonium", "barium", "calcium", "copper",
     "ferric", "ferrous", "iron", "lithium", "magnesium", "manganese",
     "potassium", "silver", "sodium", "zinc"}

SALT_CATIONS ==
    {<<U(w)>> : w \in SALT_CATIONS_WORDS}

\* PURE_SALT_COMPOUNDS: every entry is two upper-case words, cation then anion
PURE_SALT_PAIRS ==
    {<<"aluminium", "hydroxide">>, <<"aluminum", "hydroxide">>,
     <<"ammonium", "chloride">>, <<"barium", "sulfate">>,
     <<"calcium", "acetate">>, <<"calcium", "carbonate">>,
     <<"calcium", "chloride">>, <<"calcium", "citrate">>,
     <<"calcium", "fluoride">>, <<"calcium", "gluconate">>,
     <<"calcium", "hydroxide">>, <<"calcium", "lactate">>,
     <<"calcium", "phosphate">>, <<"calcium", "sulfate">>,
     <<"copper", "sulfate">>, <<"ferric", "sulfate">>,
     <<"ferrous", "fumarate">>, <<"ferrous", "gluconate">>,
     <<"ferrous", "sulfate">>, <<"ferrous", "sulphate">>,
     <<"lithium", "carbonate">>, <<"lithium", "citrate">>,
     <<"magnesium", "acetate">>, <<"magnesium", "carbonate">>,
     <<"magnesium", "chloride">>, <<"magnesium", "citrate">>,
     <<"magnesium", "gluconate">>, <<"magnesium", "hydroxide">>,
     <<"magnesium", "phosphate">>, <<"magnesium", "sulfate">>,
     <<"magnesium", "sulphate">>, <<"manganese", "sulfate">>,
     <<"potassium", "acetate">>, <<"potassium", "bicarbonate">>,
     <<"potassium", "bromide">>, <<"potassium", "chloride">>,
     <<"potassium", "citrate">>, <<"potassium", "fluoride">>,
     <<"potassium", "gluconate">>, <<"potassium", "hydroxide">>,
     <<"potassium", "iodide">>, <<"potassium", "nitrate">>,
     <<"potassium", "phosphate">>, <<"potassium", "sulfate">>,
     <<"silver", "nitrate">>, <<"sodium", "acetate">>,
     <<"sodium", "bicarbonate">>, <<"sodium", "bromide">>,
     <<"sodium", "carbonate">>, <<"sodium", "chloride">>,
     <<"sodium", "citrate">>, <<"sodium", "fluoride">>,
     <<"sodium", "gluconate">>, <<"sodium", "hydroxide">>,
     <<"sodium", "iodide">>, <<"sodium", "lactate">>,
     <<"sodium", "nitrate">>, <<"sodium", "phosphate">>,
     <<"sodium", "selenite">>, <<"sodium", "sulfate">>,
     <<"sodium", "thiosulfate">>, <<"zinc", "chloride">>,
     <<"zinc", "gluconate">>, <<"zinc", "oxide">>, <<"zinc", "sulfate">>,
     <<"zinc", "sulphate">>}

PURE_SALT_COMPOUNDS == {<<U(p[1]), SP, U(p[2])>> : p \in PURE_SALT_PAIRS}

----------------------------------------------------------------------------
(* Base/salt splitter                                                      *)

\* str.split(): the maximal runs of non-blank chunks
RECURSIVE SplitAcc(_, _, _)
SplitAcc(s, cur, acc) ==
    IF s = <<>> THEN (IF cur = <<>> THEN acc ELSE Append(acc, cur))
    ELSE IF IsSpace(Head(s))
         THEN SplitAcc(Tail(s), <<>>, IF cur = <<>> THEN acc ELSE Append(acc, cur))
         ELSE SplitAcc(Tail(s), Append(cur, Head(s)), acc)

split(s) == SplitAcc(s, <<>>, <<>>)

\* " ".join(tokens)
RECURSIVE join(_)
join(tokens) ==
    IF tokens = <<>> THEN <<>>
    ELSE IF Len(tokens) = 1 THEN tokens[1]
    ELSE tokens[1] \o <<SP>> \o join(Tail(tokens))

\* a one-word lower-case token
Tok(w) == <<L(w)>>

STOPWORDS_LOWER == {lower(s) : s \in STOPWORDS}
UNIT_TOKENS_LOWER == {lower(s) : s \in UNIT_TOKENS}
BASE_GENERIC_IGNORE == STOPWORDS_LOWER \cup UNIT_TOKENS_LOWER
MEASUREMENT_TOKENS == UNIT_TOKENS_LOWER
SPECIAL_SALT_TOKENS == {lower(s) : s \in SALT_CATIONS}

\* SALT_TAIL_BREAK_TOKENS, lower-cased
_SALT_TAIL_BREAK_TOKENS == {Tok("+"), Tok("/"), Tok("&"), Tok("and"), Tok("with")}

\* _build_salt_token_words(): the lower-cased salt tokens, the words of their
\* normalized text, and the two noise words
SALT_TOKEN_WORDS ==
    {lower(t) : t \in SALT_TOKENS}
        \cup UNION {{p[i] : i \in 1..Len(p)} :
                        p \in {split(normalize_text(Str(t))) : t \in SALT_TOKENS}}
        \cup {Tok("salt"), Tok("salts")}

NoiseSaltWords == {Tok("salt"), Tok("salts")}

AnyDigit(tok) == \E i \in 1..Len(tok) : IsDigit(tok[i])
\* re.search(r"[a-z]", tok)
HasAZ(tok) == \E i \in 1..Len(tok) : LastIsAZ(tok[i])
\* re.fullmatch(r"[a-z]+[0-9]+[a-z0-9]*", tok)
IsAlnumCode(tok) ==
    /\ tok # <<>>
    /\ FirstIsAZ(tok[1]) /\ LastIsAZ(tok[1])
    /\ AnyDigit(tok)
    /\ \A i \in 1..Len(tok) : IsDigit(tok[i]) \/ (FirstIsAZ(tok[i]) /\ LastIsAZ(tok[i]))

\* the characters _token_core strips from both ends of a token
CoreStripChars == {".", ",", ";", ":", "'", "\"", "(", ")", "[", "]", "{", "}"}

RECURSIVE StripCharsLeft(_, _)
StripCharsLeft(tok, chars) ==
    IF tok # <<>> /\ Head(tok).w \in chars THEN StripCharsLeft(Tail(tok), chars) ELSE tok

RECURSIVE StripCharsRight(_, _)
StripCharsRight(tok, chars) ==
    IF tok # <<>> /\ tok[Len(tok)].w \in chars
    THEN StripCharsRight(SubSeq(tok, 1, Len(tok) - 1), chars) ELSE tok

_token_core(token) == StripCharsRight(StripCharsLeft(lower(token), CoreStripChars), CoreStripChars)

\* str.endswith("ml") or str.endswith("mg") of a lower-case token
EndsWithMlMg(tok) == tok # <<>> /\ tok[Len(tok)] \in {L("ml"), L("mg")}

_is_measurement_token(tok) ==
    LET t == lower(tok) IN
    \/ t \in MEASUREMENT_TOKENS
    \/ t \in {Tok("%"), Tok("ratio"), Tok("per")}
    \/ EndsWithMlMg(t)

\* the loop of _looks_like_salt_tail from position i on, seen_salt so far
RECURSIVE SaltTailFrom(_, _, _)
SaltTailFrom(tokens, i, seen_salt) ==
    IF i > Len(tokens) THEN seen_salt
    ELSE LET tok == tokens[i] IN
         IF lower(tok) \in _SALT_TAIL_BREAK_TOKENS THEN seen_salt
         ELSE IF tok = <<>> THEN SaltTailFrom(tokens, i + 1, seen_salt)
         ELSE IF AnyDigit(tok) \/ tok \in {Tok("%"), Tok("per")} THEN seen_salt
         ELSE IF lower(tok) = <<L("and"), L("/"), L("or")>>
              THEN SaltTailFrom(tokens, i + 1, seen_salt)
         ELSE IF lower(tok) \in SALT_TOKEN_WORDS THEN SaltTailFrom(tokens, i + 1, TRUE)
         ELSE FALSE

_looks_like_salt_tail(tokens, start_idx) == SaltTailFrom(tokens, start_idx, FALSE)

\* Positions are 1-based; NoBoundary stands for None
NoBoundary == 0

detect_as_boundary(norm_text) ==
    LET tokens == split(norm_text)
        hits == {i \in 1..Len(tokens) :
                    tokens[i] = Tok("as") /\ _looks_like_salt_tail(tokens, i + 1)}
    IN IF hits = {} THEN NoBoundary ELSE CHOOSE i \in hits : \A j \in hits : i <= j

\* the loop over salt_candidates
RECURSIVE SaltCandidateLoop(_)
SaltCandidateLoop(cands) ==
    IF cands = <<>> THEN <<>>
    ELSE LET tok_lower == lower(Head(cands))
             rest == SaltCandidateLoop(Tail(cands))
         IN IF tok_lower \in {Tok("and"), Tok("with"), Tok("plus"), Tok("+"), Tok("/")}
            THEN rest
            ELSE IF tok_lower = <<>> THEN rest
            ELSE IF ~HasAZ(tok_lower) THEN rest
            ELSE IF tok_lower \notin SALT_TOKEN_WORDS THEN rest
            ELSE IF tok_lower \in NoiseSaltWords THEN rest
            ELSE <<upper(Head(cands))>> \o rest

_should_treat_as_salt(tok_lower, idx, candidates) ==
    IF tok_lower \notin SALT_TOKEN_WORDS THEN FALSE
    ELSE IF tok_lower \in NoiseSaltWords THEN FALSE
    ELSE IF idx > 1 /\ lower(candidates[idx - 1]) = Tok("as") THEN TRUE
    ELSE IF tok_lower \in SPECIAL_SALT_TOKENS THEN FALSE
    ELSE TRUE

_is_candidate(tok, idx, candidates) ==
    LET tok_lower == lower(tok)
        tok_key == _token_core(tok)
    IN IF tok_key \in BASE_GENERIC_IGNORE THEN FALSE
       ELSE IF _is_measurement_token(tok_key) THEN FALSE
       ELSE IF tok_lower = Tok("%") THEN FALSE
       ELSE IF ~HasAZ(tok_lower) THEN FALSE
       ELSE IF IsDigit(tok_lower[1]) THEN FALSE
       ELSE IF AnyDigit(tok_lower) /\ ~IsAlnumCode(tok_lower) THEN FALSE
       ELSE TRUE

ConnectiveSymbols == {Tok("+"), Tok("/"), Tok("&")}

\* the loop of _truncate_tokens from position idx on
RECURSIVE TruncateFrom(_, _, _)
TruncateFrom(tokens, idx, truncated) ==
    IF idx > Len(tokens) THEN truncated
    ELSE LET tok == tokens[idx]
             tok_lower == lower(tok)
             tok_key == _token_core(tok)
         IN IF tok \in ConnectiveSymbols
            THEN TruncateFrom(tokens, idx + 1,
                              IF truncated # <<>> THEN Append(truncated, upper(tok))
                              ELSE truncated)
            ELSE IF tok_lower = Tok("as") THEN truncated
            ELSE IF _should_treat_as_salt(tok_lower, idx, tokens)
                 THEN TruncateFrom(tokens, idx + 1, truncated)
            ELSE IF _is_measurement_token(tok_key)
                 THEN TruncateFrom(tokens, idx + 1, truncated)
            ELSE IF tok_key \in BASE_GENERIC_IGNORE /\ tok_lower \notin SALT_TOKEN_WORDS
                 THEN TruncateFrom(tokens, idx + 1, truncated)
            ELSE IF ~HasAZ(tok_lower) THEN TruncateFrom(tokens, idx + 1, truncated)
            ELSE IF AnyDigit(tok_lower)
                 THEN TruncateFrom(tokens, idx + 1,
                                   IF IsAlnumCode(tok_lower)
                                   THEN Append(truncated, upper(tok)) ELSE truncated)
            ELSE TruncateFrom(tokens, idx + 1, Append(truncated, upper(tok)))

_truncate_tokens(tokens) == TruncateFrom(tokens, 1, <<>>)

\* the loop over base_candidates from position idx on; st holds base_tokens,
\* salt_tokens and pending_leading_salts
RECURSIVE BaseCandidateLoop(_, _, _)
BaseCandidateLoop(cands, idx, st) ==
    IF idx > Len(cands) THEN st
    ELSE LET tok == cands[idx]
             tok_lower == lower(tok)
         IN IF tok \in ConnectiveSymbols
            THEN BaseCandidateLoop(cands, idx + 1,
                    IF /\ st.base_tokens # <<>>
                       /\ \E j \in (idx + 1)..Len(cands) : _is_candidate(cands[j], j, cands)
                    THEN [st EXCEPT !.base_tokens = Append(@, tok)]
                    ELSE st)
            ELSE IF _should_treat_as_salt(tok_lower, idx, cands)
                 THEN BaseCandidateLoop(cands, idx + 1,
                        IF st.base_tokens # <<>>
                        THEN [st EXCEPT !.salt_tokens = Append(@, upper(tok))]
                        ELSE [st EXCEPT !.pending_leading_salts = Append(@, upper(tok))])
            ELSE IF ~_is_candidate(tok, idx, cands)
                 THEN BaseCandidateLoop(cands, idx + 1, st)
            ELSE BaseCandidateLoop(cands, idx + 1,
                                   [st EXCEPT !.base_tokens = Append(@, upper(tok))])

InSaltWords(tok) == lower(tok) \in SALT_TOKEN_WORDS

\* what the while loop of _trim_trailing_salts leaves of seq (seq is popped in place)
RECURSIVE PopTrailingSalts(_)
PopTrailingSalts(seq) ==
    IF seq # <<>> /\ InSaltWords(seq[Len(seq)])
    THEN PopTrailingSalts(SubSeq(seq, 1, Len(seq) - 1))
    ELSE seq

\* _trim_trailing_salts(seq): [seq |-> the list after the call, trimmed |-> the result]
_trim_trailing_salts(seq) ==
    IF seq = <<>> THEN [seq |-> seq, trimmed |-> <<>>]
    ELSE IF \A i \in 1..Len(seq) : InSaltWords(seq[i]) THEN [seq |-> seq, trimmed |-> <<>>]
    ELSE LET kept == PopTrailingSalts(seq)
             popped == SubSeq(seq, Len(kept) + 1, Len(seq))
         IN [seq |-> kept,
             trimmed |-> SelectSeq([i \in 1..Len(popped) |-> upper(popped[i])],
                                   LAMBDA t : lower(t) \notin NoiseSaltWords)]

\* a loop that keeps every entry
AllInOrder(toks, kept) == toks

\* the de-duplication loop: first occurrences, in order, empty entries dropped
RECURSIVE UniqueInOrder(_, _)
UniqueInOrder(toks, kept) ==
    IF toks = <<>> THEN <<>>
    ELSE IF Head(toks) # <<>> /\ Head(toks) \notin kept
         THEN <<Head(toks)>> \o UniqueInOrder(Tail(toks), kept \cup {Head(toks)})
         ELSE UniqueInOrder(Tail(toks), kept)

\* the last fallback of extract_base_and_salts: the raw text, upper-cased
SplitWithFallback(raw_text, base, salts) ==
    [base |-> IF base = <<>> /\ raw_text.s # <<>> THEN upper(strip(raw_text.s)) ELSE base,
     salts |-> salts]

\* a result that keeps the salts where they are when there is no base
SplitResultSaltsKept(raw_text, base, unique_salts) ==
    [base |-> IF base = <<>> /\ raw_text.s # <<>> THEN upper(strip(raw_text.s)) ELSE base,
     salts |-> unique_salts]

\* the joined base and the de-duplicated salts; the salts become the base
\* when there is no base
SplitResult(raw_text, base, unique_salts) ==
    SplitWithFallback(raw_text,
                      IF base = <<>> /\ unique_salts # <<>> THEN join(unique_salts) ELSE base,
                      IF base = <<>> /\ unique_salts # <<>> THEN <<>> ELSE unique_salts)

\* after _trim_trailing_salts(base_tokens)
SplitAfterTrim(raw_text, salt_tokens, trim) ==
    SplitResult(raw_text,
                IF trim.seq # <<>> THEN upper(strip(join(trim.seq))) ELSE <<>>,
                UniqueInOrder(salt_tokens \o trim.trimmed, {}))

\* after the fallback to _truncate_tokens
SplitAfterTruncate(raw_text, st, base_tokens) ==
    SplitAfterTrim(raw_text, st.salt_tokens,
                   _trim_trailing_salts(IF base_tokens = <<>> /\ st.pending_leading_salts # <<>>
                                        THEN st.pending_leading_salts ELSE base_tokens))

\* after the loop over base_candidates
SplitAfterLoop(raw_text, base_candidates, st) ==
    SplitAfterTruncate(raw_text, st,
                       IF st.base_tokens = <<>> THEN _truncate_tokens(base_candidates)
                       ELSE st.base_tokens)

\* extract_base_and_salts from the two candidate lists on
SplitCandidates(raw_text, base_candidates, salt_candidates) ==
    SplitAfterLoop(raw_text, base_candidates,
                   BaseCandidateLoop(base_candidates, 1,
                        [base_tokens |-> <<>>,
                         salt_tokens |-> SaltCandidateLoop(salt_candidates),
                         pending_leading_salts |-> <<>>]))

\* extract_base_and_salts from the tokens and the boundary on
SplitTokens(raw_text, tokens, boundary) ==
    SplitCandidates(raw_text,
                    IF boundary = NoBoundary THEN tokens ELSE SubSeq(tokens, 1, boundary - 1),
                    IF boundary = NoBoundary THEN <<>>
                    ELSE SubSeq(tokens, boundary + 1, Len(tokens)))

\* extract_base_and_salts from the normalized text on
SplitNormalized(raw_text, norm) ==
    SplitTokens(raw_text, split(norm), detect_as_boundary(norm))

\* extract_base_and_salts(raw_text): [base |-> str, salts |-> list of str]
extract_base_and_salts(raw_text) ==
    IF raw_text.t # "str" THEN [base |-> <<>>, salts |-> <<>>]
    ELSE SplitNormalized(raw_text, normalize_text(raw_text))

----------------------------------------------------------------------------
(* Form and route inference (routes_forms.py, drug_scraper.py)             *)

\* Result of a call that may raise: [raised, value]
Ret(v) == [raised |-> FALSE, value |-> v]

\* The entries of unified_constants.FORM_TO_ROUTE that can occur in the texts
\* the model feeds to parse_form_from_text (every other key never matches)
_UNIFIED_FORM_TO_ROUTE ==
    (<<U("capsule")>> :> <<U("oral")>>)
        @@ (<<U("tablet")>> :> <<U("oral")>>)
        @@ (<<U("bottle")>> :> <<U("intravenous")>>)
        @@ (<<U("film")>> :> <<U("buccal")>>)

\* routes_forms.FORM_TO_ROUTE: keys and values lower-cased
FORM_TO_ROUTE ==
    [k \in {lower(u) : u \in DOMAIN _UNIFIED_FORM_TO_ROUTE} |->
        lower(_UNIFIED_FORM_TO_ROUTE[CHOOSE u \in DOMAIN _UNIFIED_FORM_TO_ROUTE : lower(u) = k])]

\* number of characters of a chunk of a form word
ChunkLen(ch) ==
    CASE ch.w = "capsule" -> 7
      [] ch.w = "tablet" -> 6
      [] ch.w = "bottle" -> 6
      [] ch.w = "film" -> 4
      [] OTHER -> 1

\* len(s) of a form word
RECURSIVE CharLen(_)
CharLen(s) == IF s = <<>> THEN 0 ELSE ChunkLen(Head(s)) + CharLen(Tail(s))

\* The lists sorted(set(FORM_TO_ROUTE.keys()), key=len, reverse=True) can be:
\* sorted() is stable, so keys of equal length keep the iteration order of the
\* set, which differs from process to process (str hashes are randomised)
FormWordOrders ==
    LET keys == DOMAIN FORM_TO_ROUTE
        n == Cardinality(keys)
    IN {o \in [1..n -> keys] :
            /\ \A i, j \in 1..n : i # j => o[i] # o[j]
            /\ \A i, j \in 1..n : i < j => CharLen(o[i]) >= CharLen(o[j])}

\* re.search(rf"\b{fw}\b", s): fw occurs in s between word boundaries
SearchWord(fw, s) ==
    \E i \in 1..(Len(s) - Len(fw) + 1) :
        /\ SubSeq(s, i, i + Len(fw) - 1) = fw
        /\ (i = 1 \/ ~IsWordChar(s[i - 1]))
        /\ (i + Len(fw) > Len(s) \/ ~IsWordChar(s[i + Len(fw)]))

\* stands for the None a function returns in place of a str
NoneStr == PyNone

\* the first word of form_words among those found
FirstHit(form_words, hits) ==
    IF hits = {} THEN NoneStr
    ELSE Str(form_words[CHOOSE i \in hits : \A j \in hits : i <= j])

\* parse_form_from_text(s_norm) under the list form_words: Str(fw) or None
parse_form_from_text(s_norm, form_words) ==
    FirstHit(form_words, {i \in 1..Len(form_words) : SearchWord(form_words[i], s_norm)})

\* FORM_TO_ROUTE.get(form_token) if form_token else None
RouteOf(form_token) ==
    IF Truthy(form_token) /\ form_token.s \in DOMAIN FORM_TO_ROUTE
    THEN Str(FORM_TO_ROUTE[form_token.s]) ELSE NoneStr

FormAndRoute(form_token) == [form_token |-> form_token, route |-> RouteOf(form_token)]

\* infer_form_and_route(dosage_form): [form_token, route], each Str or None
infer_form_and_route(dosage_form, form_words) ==
    IF dosage_form.t # "str" \/ strip(dosage_form.s) = <<>>
    THEN [form_token |-> NoneStr, route |-> NoneStr]
    ELSE FormAndRoute(parse_form_from_text(normalize_text(dosage_form), form_words))

----------------------------------------------------------------------------
(* Brand/generic flip detector (drug_scraper.py)                           *)

\* the alternation of the salt-suffix regex applied to the whole string
SaltSuffixes ==
    {"hydrochloride", "hcl", "sodium", "potassium", "calcium", "sulfate", "acetate",
     "maleate", "fumarate", "tartrate", "citrate", "phosphate", "chloride", "besilate",
     "besylate", "mesylate", "trihydrate", "dihydrate", "monohydrate"}

\* the alternation of the salt-suffix regex applied to each "+" part
PartSaltSuffixes ==
    {"hydrochloride", "hcl", "sodium", "potassium", "calcium", "sulfate", "acetate",
     "maleate", "fumarate", "tartrate", "citrate", "phosphate", "chloride", "besilate",
     "besylate", "mesylate"}

\* re.sub(r'\s+(A|B|...)\s*$', '', s, flags=re.IGNORECASE) on a string without
\* trailing blanks: a last word of the alternation goes with the blanks before it
StripSaltSuffix(s, suffixes) ==
    IF /\ Len(s) >= 2
       /\ IsAlpha(s[Len(s)]) /\ s[Len(s)].w \in suffixes
       /\ IsSpace(s[Len(s) - 1])
    THEN rstrip(SubSeq(s, 1, Len(s) - 2))
    ELSE s

\* re.match(r'^(.+?)\s+AS\s+', s): the positions of an AS between blanks
AsPositions(s) ==
    {i \in 3..(Len(s) - 1) : s[i] = U("as") /\ IsSpace(s[i - 1]) /\ IsSpace(s[i + 1])}

\* re.match(r'^(.+?)\s*\(AS\s+', s): the positions of a "(" followed by AS and a blank
ParenAsPositions(s) ==
    {i \in 2..(Len(s) - 2) : s[i].w = "(" /\ s[i + 1] = U("as") /\ IsSpace(s[i + 2])}

Least(S) == CHOOSE i \in S : \A j \in S : i <= j

\* str.split("+"), each part stripped
RECURSIVE PlusParts(_, _, _)
PlusParts(s, cur, acc) ==
    IF s = <<>> THEN Append(acc, strip(cur))
    ELSE IF Head(s).w = "+" THEN PlusParts(Tail(s), <<>>, Append(acc, strip(cur)))
    ELSE PlusParts(Tail(s), Append(cur, Head(s)), acc)

HasPlus(s) == \E i \in 1..Len(s) : s[i].w = "+"

\* the "all parts must be generics" loop over the parts
AllGeneric(parts, generics) ==
    \A i \in 1..Len(parts) : StripSaltSuffix(parts[i], PartSaltSuffixes) \in generics

AllPartsGeneric(s, generics) == AllGeneric(PlusParts(s, <<>>, <<>>), generics)

\* the salt-suffix rule: the name without its suffix is a generic
BaseMatches(name_upper, base, generics) == base # name_upper /\ base \in generics

\* the two "AS" rules: what stands before the first match is a generic
PrefixMatches(name_upper, positions, generics) ==
    positions # {} /\ strip(SubSeq(name_upper, 1, Least(positions) - 1)) \in generics

\* a generic occurs somewhere in s
OccursIn(g, s) == \E i \in 1..(Len(s) - Len(g) + 1) : SubSeq(s, i, i + Len(g) - 1) = g

\* a matcher that accepts a name containing a generic
ExactMatchContains(name_upper, generics) ==
    \E g \in generics : g # <<>> /\ OccursIn(g, name_upper)

\* the rules of _is_exact_generic_match on name_upper, in their order
ExactMatchUpper(name_upper, generics) ==
    IF name_upper \in generics THEN TRUE
    ELSE IF BaseMatches(name_upper, StripSaltSuffix(name_upper, SaltSuffixes), generics)
         THEN TRUE
    ELSE IF PrefixMatches(name_upper, AsPositions(name_upper), generics) THEN TRUE
    ELSE IF PrefixMatches(name_upper, ParenAsPositions(name_upper), generics) THEN TRUE
    ELSE IF HasPlus(name_upper) /\ AllPartsGeneric(name_upper, generics) THEN TRUE
    ELSE FALSE

\* _is_exact_generic_match(name, automaton, generics) for a str name
ExactMatchStr(name, generics) == ExactMatchUpper(strip(upper(name)), generics)

\* a call that raises (an AttributeError: the value has no such str method)
Raise == [raised |-> TRUE, value |-> FALSE]

\* _is_exact_generic_match(name, automaton, generics): Ret(bool), or Raise when
\* name is a truthy non-str
_is_exact_generic_match(name, automaton, generics) ==
    IF ~Truthy(name) THEN Ret(FALSE)
    ELSE IF name.t # "str" THEN Raise
    ELSE Ret(ExactMatchStr(name.s, generics))

\* a decision that looks at the brand column only
FlipDecisionBrandOnly(brand_is_generic, generic_is_generic) ==
    IF brand_is_generic.raised \/ generic_is_generic.raised THEN Raise
    ELSE Ret(brand_is_generic.value)

\* a decision that flags a row when either column is an exact match
FlipDecisionEitherColumn(brand_is_generic, generic_is_generic) ==
    IF brand_is_generic.raised \/ generic_is_generic.raised THEN Raise
    ELSE Ret(brand_is_generic.value \/ generic_is_generic.value)

\* the last lines of _detect_brand_generic_flip: True when the brand column
\* has an exact generic match and the generic column has none
FlipDecision(brand_is_generic, generic_is_generic) ==
    IF brand_is_generic.raised \/ generic_is_generic.raised THEN Raise
    ELSE Ret(brand_is_generic.value /\ ~generic_is_generic.value)

\* _detect_brand_generic_flip once generics and automaton are there
_detect_brand_generic_flip(brand, generic, generics, automaton) ==
    IF ~Truthy(brand) \/ ~Truthy(generic) THEN Ret(FALSE)
    ELSE FlipDecision(_is_exact_generic_match(brand, automaton, generics),
                      _is_exact_generic_match(generic, automaton, generics))

----------------------------------------------------------------------------
(* Form tables and helpers (unified_constants.py)                          *)

\* An upper-case table string written as its words: runs of letters, and
\* every other character alone
Phrase(ws) == [i \in 1..Len(ws) |-> UpperChunk(L(ws[i]))]

\* the dict a table of <<key, value>> items is, values converted by Value
DictOf(items, Value(_)) ==
    [k \in {Phrase(it[1]) : it \in items} |->
        Value((CHOOSE it \in items : Phrase(it[1]) = k)[2])]

\* a list of table strings
Phrases(list) == [i \in 1..Len(list) |-> Phrase(list[i])]

\* d.get(k): the value, or None
DictGet(d, k) == IF k \in DOMAIN d THEN Str(d[k]) ELSE PyNone

\* x or y
PyOr(x, y) == IF Truthy(x) THEN x ELSE y

FORM_CANON_ITEMS ==
    {<<<<"tab">>, <<"tablet">>>>, <<<<"tabs">>, <<"tablet">>>>, <<<<"tablet">>, <<"tablet">>>>,
     <<<<"tablets">>, <<"tablet">>>>,
     <<<<"tablet", ",", " ", "film", " ", "coated">>, <<"tablet">>>>,
     <<<<"tablet", ",", " ", "coated">>, <<"tablet">>>>,
     <<<<"tablet", ",", " ", "sugar", " ", "coated">>, <<"tablet">>>>,
     <<<<"tablet", ",", " ", "chewable">>, <<"tablet">>>>,
     <<<<"tablet", ",", " ", "orally", " ", "disintegrating">>, <<"tablet">>>>,
     <<<<"tablet", ",", " ", "effervescent">>, <<"tablet">>>>,
     <<<<"tablet", ",", " ", "soluble">>, <<"tablet">>>>,
     <<<<"tablet", ",", " ", "multilayer">>, <<"tablet">>>>,
     <<<<"tablet", ",", " ", "for", " ", "suspension">>, <<"tablet">>>>,
     <<<<"tablet", ",", " ", "extended", " ", "release">>, <<"tablet", ",", " ", "extended", " ", "release">>>>,
     <<<<"tablet", ",", " ", "film", " ", "coated", ",", " ", "extended", " ", "release">>, <<"tablet", ",", " ", "extended", " ", "release">>>>,
     <<<<"tablet", ",", " ", "delayed", " ", "release">>, <<"tablet", ",", " ", "delayed", " ", "release">>>>,
     <<<<"tablet", ",", " ", "multilayer", ",", " ", "extended", " ", "release">>, <<"tablet", ",", " ", "extended", " ", "release">>>>,
     <<<<"tablet", ",", " ", "chewable", ",", " ", "extended", " ", "release">>, <<"tablet", ",", " ", "extended", " ", "release">>>>,
     <<<<"cap">>, <<"capsule">>>>, <<<<"caps">>, <<"capsule">>>>,
     <<<<"capsule">>, <<"capsule">>>>, <<<<"capsules">>, <<"capsule">>>>,
     <<<<"caplet">>, <<"capsule">>>>,
     <<<<"capsule", ",", " ", "liquid", " ", "filled">>, <<"capsule">>>>,
     <<<<"capsule", ",", " ", "gelatin", " ", "coated">>, <<"capsule">>>>,
     <<<<"capsule", ",", " ", "coated">>, <<"capsule">>>>,
     <<<<"capsule", ",", " ", "coated", " ", "pellets">>, <<"capsule">>>>,
     <<<<"capsule", ",", " ", "extended", " ", "release">>, <<"capsule", ",", " ", "extended", " ", "release">>>>,
     <<<<"capsule", ",", " ", "delayed", " ", "release">>, <<"capsule", ",", " ", "delayed", " ", "release">>>>,
     <<<<"capsule", ",", " ", "coated", ",", " ", "extended", " ", "release">>, <<"capsule", ",", " ", "extended", " ", "release">>>>,
     <<<<"capsule", ",", " ", "delayed", " ", "release", " ", "pellets">>, <<"capsule", ",", " ", "delayed", " ", "release">>>>,
     <<<<"solution">>, <<"solution">>>>, <<<<"soln">>, <<"solution">>>>,
     <<<<"sol">>, <<"solution">>>>, <<<<"solutions">>, <<"solution">>>>,
     <<<<"solution", ",", " ", "concentrate">>, <<"solution">>>>,
     <<<<"oral", " ", "solution">>, <<"solution">>>>, <<<<"suspension">>, <<"suspension">>>>,
     <<<<"susp">>, <<"suspension">>>>, <<<<"suspensions">>, <<"suspension">>>>,
     <<<<"oral", " ", "suspension">>, <<"suspension">>>>,
     <<<<"suspension", ",", " ", "extended", " ", "release">>, <<"suspension", ",", " ", "extended", " ", "release">>>>,
     <<<<"syr">>, <<"syrup">>>>, <<<<"syrup">>, <<"syrup">>>>, <<<<"syrups">>, <<"syrup">>>>,
     <<<<"inj">>, <<"injection">>>>, <<<<"injectable">>, <<"injection">>>>,
     <<<<"injection">>, <<"injection">>>>,
     <<<<"injection", ",", " ", "solution">>, <<"injection">>>>,
     <<<<"injection", ",", " ", "emulsion">>, <<"injection">>>>,
     <<<<"injection", ",", " ", "suspension">>, <<"injection">>>>,
     <<<<"injection", ",", " ", "powder", ",", " ", "for", " ", "solution">>, <<"injection">>>>,
     <<<<"injection", ",", " ", "powder", ",", " ", "for", " ", "suspension">>, <<"injection">>>>,
     <<<<"injection", ",", " ", "powder", ",", " ", "lyophilized", ",", " ", "for", " ", "solution">>, <<"injection">>>>,
     <<<<"injection", ",", " ", "powder", ",", " ", "lyophilized", ",", " ", "for", " ", "suspension">>, <<"injection">>>>,
     <<<<"injection", ",", " ", "solution", ",", " ", "concentrate">>, <<"injection">>>>,
     <<<<"injectable", ",", " ", "liposomal">>, <<"injection">>>>,
     <<<<"injection", ",", " ", "suspension", ",", " ", "extended", " ", "release">>, <<"injection", ",", " ", "extended", " ", "release">>>>,
     <<<<"injection", ",", " ", "powder", ",", " ", "for", " ", "suspension", ",", " ", "extended", " ", "release">>, <<"injection", ",", " ", "extended", " ", "release">>>>,
     <<<<"ampule">>, <<"ampule">>>>, <<<<"ampul">>, <<"ampule">>>>, <<<<"amp">>, <<"ampule">>>>,
     <<<<"ampoule">>, <<"ampule">>>>, <<<<"amps">>, <<"ampule">>>>,
     <<<<"ampules">>, <<"ampule">>>>, <<<<"ampuls">>, <<"ampule">>>>,
     <<<<"vial">>, <<"vial">>>>, <<<<"vials">>, <<"vial">>>>, <<<<"vl">>, <<"vial">>>>,
     <<<<"bot">>, <<"bottle">>>>, <<<<"bott">>, <<"bottle">>>>, <<<<"bottle">>, <<"bottle">>>>,
     <<<<"bottles">>, <<"bottle">>>>, <<<<"bag">>, <<"bag">>>>, <<<<"bags">>, <<"bag">>>>,
     <<<<"kit">>, <<"kit">>>>, <<<<"kits">>, <<"kit">>>>,
     <<<<"fc">>, <<"film", " ", "coated">>>>, <<<<"ec">>, <<"enteric", " ", "coated">>>>,
     <<<<"sr">>, <<"extended", " ", "release">>>>, <<<<"xr">>, <<"extended", " ", "release">>>>,
     <<<<"er">>, <<"extended", " ", "release">>>>, <<<<"dr">>, <<"delayed", " ", "release">>>>,
     <<<<"non", "-", "pnf">>, <<"non", "-", "formulary">>>>,
     <<<<"nonpnf">>, <<"non", "-", "formulary">>>>, <<<<"cream">>, <<"cream">>>>,
     <<<<"creams">>, <<"cream">>>>, <<<<"cream", ",", " ", "augmented">>, <<"cream">>>>,
     <<<<"lotion">>, <<"lotion">>>>, <<<<"lotions">>, <<"lotion">>>>,
     <<<<"lotion", ",", " ", "augmented">>, <<"lotion">>>>, <<<<"gel">>, <<"gel">>>>,
     <<<<"gels">>, <<"gel">>>>, <<<<"gel", ",", " ", "metered">>, <<"gel">>>>,
     <<<<"ointment">>, <<"ointment">>>>, <<<<"ointments">>, <<"ointment">>>>,
     <<<<"paste">>, <<"paste">>>>, <<<<"pastes">>, <<"paste">>>>, <<<<"foam">>, <<"foam">>>>,
     <<<<"foams">>, <<"foam">>>>, <<<<"emulsion">>, <<"emulsion">>>>,
     <<<<"emulsions">>, <<"emulsion">>>>, <<<<"shampoo">>, <<"shampoo">>>>,
     <<<<"shampoos">>, <<"shampoo">>>>, <<<<"soap">>, <<"soap">>>>, <<<<"soaps">>, <<"soap">>>>,
     <<<<"wash">>, <<"wash">>>>, <<<<"powder">>, <<"powder">>>>, <<<<"pwdr">>, <<"powder">>>>,
     <<<<"powders">>, <<"powder">>>>,
     <<<<"powder", ",", " ", "for", " ", "solution">>, <<"powder">>>>,
     <<<<"powder", ",", " ", "for", " ", "suspension">>, <<"powder">>>>,
     <<<<"powder", ",", " ", "metered">>, <<"powder", ",", " ", "metered">>>>,
     <<<<"granule">>, <<"granule">>>>, <<<<"granules">>, <<"granule">>>>,
     <<<<"gran">>, <<"granule">>>>,
     <<<<"granule", ",", " ", "for", " ", "solution">>, <<"granule">>>>,
     <<<<"granule", ",", " ", "for", " ", "suspension">>, <<"granule">>>>,
     <<<<"granule", ",", " ", "effervescent">>, <<"granule">>>>,
     <<<<"granule", ",", " ", "delayed", " ", "release">>, <<"granule", ",", " ", "delayed", " ", "release">>>>,
     <<<<"drops">>, <<"drops">>>>, <<<<"drop">>, <<"drops">>>>, <<<<"gtts">>, <<"drops">>>>,
     <<<<"eye", " ", "drops">>, <<"drops">>>>, <<<<"ear", " ", "drops">>, <<"drops">>>>,
     <<<<"nasal", " ", "drops">>, <<"drops">>>>, <<<<"oral", " ", "drops">>, <<"drops">>>>,
     <<<<"solution", " ", "/", " ", "drops">>, <<"drops">>>>,
     <<<<"suspension", " ", "/", " ", "drops">>, <<"drops">>>>,
     <<<<"solution", ",", " ", "gel", " ", "forming", " ", "/", " ", "drops">>, <<"drops">>>>,
     <<<<"instill", ".", "solution">>, <<"drops">>>>, <<<<"sachet">>, <<"sachet">>>>,
     <<<<"sachets">>, <<"sachet">>>>, <<<<"spray">>, <<"spray">>>>,
     <<<<"sprays">>, <<"spray">>>>, <<<<"nasal", " ", "spray">>, <<"spray">>>>,
     <<<<"dispenser">>, <<"spray">>>>, <<<<"spray", ",", " ", "suspension">>, <<"spray">>>>,
     <<<<"spray", ",", " ", "metered">>, <<"spray", ",", " ", "metered">>>>,
     <<<<"aerosol">>, <<"aerosol">>>>, <<<<"aerosols">>, <<"aerosol">>>>,
     <<<<"aerosol", ",", " ", "spray">>, <<"aerosol">>>>,
     <<<<"aerosol", ",", " ", "foam">>, <<"aerosol">>>>,
     <<<<"aerosol", ",", " ", "powder">>, <<"aerosol">>>>,
     <<<<"aerosol", ",", " ", "metered">>, <<"aerosol", ",", " ", "metered">>>>,
     <<<<"inhaler">>, <<"inhaler">>>>, <<<<"inhalers">>, <<"inhaler">>>>,
     <<<<"inhalant">>, <<"inhaler">>>>, <<<<"mdi">>, <<"inhaler">>>>,
     <<<<"dpi">>, <<"inhaler">>>>,
     <<<<"metered", " ", "dose", " ", "inhaler">>, <<"inhaler">>>>,
     <<<<"dry", " ", "powder", " ", "inhaler">>, <<"inhaler">>>>,
     <<<<"nebule">>, <<"nebule">>>>, <<<<"nebules">>, <<"nebule">>>>,
     <<<<"neb">>, <<"nebule">>>>, <<<<"nebs">>, <<"nebule">>>>,
     <<<<"nebulizer", " ", "solution">>, <<"nebule">>>>,
     <<<<"inhal", ".", "aerosol">>, <<"aerosol", ",", " ", "metered">>>>,
     <<<<"oral", " ", "aerosol">>, <<"aerosol", ",", " ", "metered">>>>,
     <<<<"inhal", ".", "powder">>, <<"powder", ",", " ", "metered">>>>,
     <<<<"inhal", ".", "solution">>, <<"nebule">>>>, <<<<"suppository">>, <<"suppository">>>>,
     <<<<"supp">>, <<"suppository">>>>, <<<<"suppositories">>, <<"suppository">>>>,
     <<<<"patch">>, <<"patch">>>>, <<<<"patches">>, <<"patch">>>>,
     <<<<"patch", ",", " ", "extended", " ", "release">>, <<"patch">>>>,
     <<<<"film">>, <<"film">>>>, <<<<"films">>, <<"film">>>>,
     <<<<"film", ",", " ", "soluble">>, <<"film">>>>,
     <<<<"film", ",", " ", "extended", " ", "release">>, <<"film">>>>,
     <<<<"lamella">>, <<"film">>>>, <<<<"lozenge">>, <<"lozenge">>>>,
     <<<<"lozenges">>, <<"lozenge">>>>, <<<<"mouthwash">>, <<"mouthwash">>>>,
     <<<<"chewing", " ", "gum">>, <<"gum">>>>, <<<<"gum", ",", " ", "chewing">>, <<"gum">>>>,
     <<<<"gum">>, <<"gum">>>>, <<<<"elixir">>, <<"elixir">>>>, <<<<"implant">>, <<"implant">>>>,
     <<<<"implants">>, <<"implant">>>>,
     <<<<"s", ".", "c", ".", " ", "implant">>, <<"implant">>>>, <<<<"ovule">>, <<"ovule">>>>,
     <<<<"ovules">>, <<"ovule">>>>, <<<<"enema">>, <<"enema">>>>, <<<<"enemas">>, <<"enema">>>>,
     <<<<"bar">>, <<"bar">>>>, <<<<"bars">>, <<"bar">>>>, <<<<"strip">>, <<"strip">>>>,
     <<<<"strips">>, <<"strip">>>>, <<<<"wafer">>, <<"wafer">>>>, <<<<"wafers">>, <<"wafer">>>>,
     <<<<"pellet">>, <<"pellet">>>>, <<<<"pellets">>, <<"pellet">>>>,
     <<<<"ring">>, <<"ring">>>>, <<<<"rings">>, <<"ring">>>>, <<<<"insert">>, <<"insert">>>>,
     <<<<"inserts">>, <<"insert">>>>, <<<<"pessary">>, <<"pessary">>>>,
     <<<<"swab">>, <<"swab">>>>, <<<<"swabs">>, <<"swab">>>>, <<<<"cloth">>, <<"cloth">>>>,
     <<<<"cloths">>, <<"cloth">>>>, <<<<"sponge">>, <<"sponge">>>>,
     <<<<"sponges">>, <<"sponge">>>>, <<<<"dressing">>, <<"dressing">>>>,
     <<<<"dressings">>, <<"dressing">>>>, <<<<"stick">>, <<"stick">>>>,
     <<<<"liquid">>, <<"liquid">>>>, <<<<"gas">>, <<"gas">>>>}

\* a table in which a canonical form, CAPSULE, is an alias of another form
FORM_CANON_CHAINED ==
    [k \in {Phrase(it[1]) : it \in FORM_CANON_ITEMS} |->
        IF k = Phrase(<<"capsule">>) THEN Phrase(<<"tablet">>)
        ELSE DictOf(FORM_CANON_ITEMS, Phrase)[k]]

FORM_CANON == DictOf(FORM_CANON_ITEMS, Phrase)

UNIFIED_FORM_TO_ROUTE_ITEMS ==
    {<<<<"tablet">>, <<"oral">>>>, <<<<"tab">>, <<"oral">>>>, <<<<"tabs">>, <<"oral">>>>,
     <<<<"tablet", ",", " ", "extended", " ", "release">>, <<"oral">>>>,
     <<<<"tablet", ",", " ", "delayed", " ", "release">>, <<"oral">>>>,
     <<<<"capsule">>, <<"oral">>>>, <<<<"cap">>, <<"oral">>>>, <<<<"caps">>, <<"oral">>>>,
     <<<<"caplet">>, <<"oral">>>>,
     <<<<"capsule", ",", " ", "extended", " ", "release">>, <<"oral">>>>,
     <<<<"capsule", ",", " ", "delayed", " ", "release">>, <<"oral">>>>,
     <<<<"syrup">>, <<"oral">>>>, <<<<"syrups">>, <<"oral">>>>, <<<<"syr">>, <<"oral">>>>,
     <<<<"suspension">>, <<"oral">>>>, <<<<"suspensions">>, <<"oral">>>>,
     <<<<"susp">>, <<"oral">>>>,
     <<<<"suspension", ",", " ", "extended", " ", "release">>, <<"oral">>>>,
     <<<<"solution">>, <<"oral">>>>, <<<<"solutions">>, <<"oral">>>>,
     <<<<"soln">>, <<"oral">>>>, <<<<"sachet">>, <<"oral">>>>, <<<<"granule">>, <<"oral">>>>,
     <<<<"granules">>, <<"oral">>>>,
     <<<<"granule", ",", " ", "delayed", " ", "release">>, <<"oral">>>>,
     <<<<"powder">>, <<"oral">>>>, <<<<"lozenge">>, <<"oral">>>>,
     <<<<"mouthwash">>, <<"oral">>>>, <<<<"elixir">>, <<"oral">>>>, <<<<"gum">>, <<"oral">>>>,
     <<<<"chewing", " ", "gum">>, <<"oral">>>>, <<<<"wafer">>, <<"oral">>>>,
     <<<<"strip">>, <<"oral">>>>, <<<<"oral", " ", "drops">>, <<"oral">>>>,
     <<<<"cream">>, <<"topical">>>>, <<<<"ointment">>, <<"topical">>>>,
     <<<<"gel">>, <<"topical">>>>, <<<<"lotion">>, <<"topical">>>>,
     <<<<"soap">>, <<"topical">>>>, <<<<"shampoo">>, <<"topical">>>>,
     <<<<"wash">>, <<"topical">>>>, <<<<"paste">>, <<"topical">>>>,
     <<<<"foam">>, <<"topical">>>>, <<<<"liquid">>, <<"topical">>>>,
     <<<<"emulsion">>, <<"topical">>>>, <<<<"swab">>, <<"topical">>>>,
     <<<<"cloth">>, <<"topical">>>>, <<<<"stick">>, <<"topical">>>>,
     <<<<"sponge">>, <<"topical">>>>, <<<<"dressing">>, <<"topical">>>>,
     <<<<"spray">>, <<"topical">>>>, <<<<"aerosol">>, <<"topical">>>>,
     <<<<"patch">>, <<"transdermal">>>>, <<<<"inhaler">>, <<"inhalation">>>>,
     <<<<"nebule">>, <<"inhalation">>>>, <<<<"neb">>, <<"inhalation">>>>,
     <<<<"mdi">>, <<"inhalation">>>>, <<<<"dpi">>, <<"inhalation">>>>,
     <<<<"aerosol", ",", " ", "metered">>, <<"inhalation">>>>,
     <<<<"powder", ",", " ", "metered">>, <<"inhalation">>>>, <<<<"gas">>, <<"inhalation">>>>,
     <<<<"metered", " ", "dose", " ", "inhaler">>, <<"inhalation">>>>,
     <<<<"dry", " ", "powder", " ", "inhaler">>, <<"inhalation">>>>,
     <<<<"inhal", ".", "aerosol">>, <<"inhalation">>>>,
     <<<<"inhal", ".", "powder">>, <<"inhalation">>>>,
     <<<<"inhal", ".", "solution">>, <<"inhalation">>>>,
     <<<<"oral", " ", "aerosol">>, <<"inhalation">>>>, <<<<"injection">>, <<"intravenous">>>>,
     <<<<"injection", ",", " ", "extended", " ", "release">>, <<"intramuscular">>>>,
     <<<<"ampule">>, <<"parenteral">>>>, <<<<"amp">>, <<"parenteral">>>>,
     <<<<"ampul">>, <<"parenteral">>>>, <<<<"ampoule">>, <<"parenteral">>>>,
     <<<<"vial">>, <<"parenteral">>>>, <<<<"vl">>, <<"parenteral">>>>,
     <<<<"inj">>, <<"parenteral">>>>, <<<<"bottle">>, <<"intravenous">>>>,
     <<<<"bag">>, <<"intravenous">>>>, <<<<"drops">>, <<"ophthalmic">>>>,
     <<<<"drop">>, <<"ophthalmic">>>>, <<<<"eye", " ", "drop">>, <<"ophthalmic">>>>,
     <<<<"eye", " ", "drops">>, <<"ophthalmic">>>>,
     <<<<"instill", ".", "solution">>, <<"ophthalmic">>>>, <<<<"lamella">>, <<"ophthalmic">>>>,
     <<<<"ear", " ", "drop">>, <<"otic">>>>, <<<<"ear", " ", "drops">>, <<"otic">>>>,
     <<<<"spray", ",", " ", "metered">>, <<"nasal">>>>,
     <<<<"nasal", " ", "spray">>, <<"nasal">>>>, <<<<"nasal", " ", "drops">>, <<"nasal">>>>,
     <<<<"suppository">>, <<"rectal">>>>, <<<<"supp">>, <<"rectal">>>>,
     <<<<"enema">>, <<"rectal">>>>, <<<<"ovule">>, <<"vaginal">>>>,
     <<<<"ovules">>, <<"vaginal">>>>, <<<<"insert">>, <<"vaginal">>>>,
     <<<<"ring">>, <<"vaginal">>>>, <<<<"pessary">>, <<"vaginal">>>>,
     <<<<"film">>, <<"buccal">>>>, <<<<"implant">>, <<"subcutaneous">>>>,
     <<<<"s", ".", "c", ".", " ", "implant">>, <<"subcutaneous">>>>}

\* unified_constants.FORM_TO_ROUTE
UNIFIED_FORM_TO_ROUTE == DictOf(UNIFIED_FORM_TO_ROUTE_ITEMS, Phrase)

FORM_TO_ROUTES_ITEMS ==
    {<<<<"tablet">>, <<<<"oral">>>>>>, <<<<"tablet", ",", " ", "chewable">>, <<<<"oral">>>>>>,
     <<<<"tablet", ",", " ", "coated">>, <<<<"oral">>>>>>,
     <<<<"tablet", ",", " ", "delayed", " ", "release">>, <<<<"oral">>>>>>,
     <<<<"tablet", ",", " ", "effervescent">>, <<<<"oral">>>>>>,
     <<<<"tablet", ",", " ", "extended", " ", "release">>, <<<<"oral">>>>>>,
     <<<<"tablet", ",", " ", "film", " ", "coated">>, <<<<"oral">>>>>>,
     <<<<"tablet", ",", " ", "film", " ", "coated", ",", " ", "extended", " ", "release">>, <<<<"oral">>>>>>,
     <<<<"tablet", ",", " ", "for", " ", "suspension">>, <<<<"oral">>>>>>,
     <<<<"tablet", ",", " ", "multilayer">>, <<<<"oral">>>>>>,
     <<<<"tablet", ",", " ", "multilayer", ",", " ", "extended", " ", "release">>, <<<<"oral">>>>>>,
     <<<<"tablet", ",", " ", "sugar", " ", "coated">>, <<<<"oral">>>>>>,
     <<<<"capsule">>, <<<<"oral">>>>>>, <<<<"capsule", ",", " ", "coated">>, <<<<"oral">>>>>>,
     <<<<"capsule", ",", " ", "coated", " ", "pellets">>, <<<<"oral">>>>>>,
     <<<<"capsule", ",", " ", "delayed", " ", "release">>, <<<<"oral">>>>>>,
     <<<<"capsule", ",", " ", "delayed", " ", "release", " ", "pellets">>, <<<<"oral">>>>>>,
     <<<<"capsule", ",", " ", "extended", " ", "release">>, <<<<"oral">>>>>>,
     <<<<"capsule", ",", " ", "gelatin", " ", "coated">>, <<<<"oral">>>>>>,
     <<<<"capsule", ",", " ", "liquid", " ", "filled">>, <<<<"oral">>>>>>,
     <<<<"syrup">>, <<<<"oral">>>>>>,
     <<<<"tablet", ",", " ", "orally", " ", "disintegrating">>, <<<<"oral">>, <<"sublingual">>>>>>,
     <<<<"tablet", ",", " ", "chewable", ",", " ", "extended", " ", "release">>, <<<<"oral">>, <<"sublingual">>>>>>,
     <<<<"tablet", ",", " ", "soluble">>, <<<<"oral">>, <<"topical">>>>>>,
     <<<<"lozenge">>, <<<<"oral">>, <<"transmucosal">>>>>>,
     <<<<"troche">>, <<<<"sublingual">>, <<"oral">>>>>>,
     <<<<"gum", ",", " ", "chewing">>, <<<<"oral">>, <<"buccal">>>>>>,
     <<<<"mouthwash">>, <<<<"oral">>, <<"dental">>, <<"buccal">>, <<"topical">>>>>>,
     <<<<"rinse">>, <<<<"oral">>, <<"dental">>, <<"topical">>, <<"buccal">>, <<"cutaneous">>>>>>,
     <<<<"pastille">>, <<<<"oral">>>>>>, <<<<"elixir">>, <<<<"oral">>, <<"topical">>>>>>,
     <<<<"solution">>, <<<<"oral">>, <<"topical">>, <<"intravenous">>, <<"subcutaneous">>, <<"hemodialysis">>, <<"ophthalmic">>, <<"percutaneous">>, <<"intradermal">>, <<"intramuscular">>, <<"inhalation">>>>>>,
     <<<<"solution", " ", "/", " ", "drops">>, <<<<"ophthalmic">>, <<"oral">>, <<"otic">>, <<"topical">>>>>>,
     <<<<"solution", ",", " ", "concentrate">>, <<<<"oral">>, <<"intravenous">>, <<"hemodialysis">>, <<"inhalation">>, <<"topical">>, <<"irrigation">>, <<"ophthalmic">>>>>>,
     <<<<"solution", ",", " ", "gel", " ", "forming", " ", "/", " ", "drops">>, <<<<"ophthalmic">>, <<"topical">>, <<"cutaneous">>>>>>,
     <<<<"solution", ",", " ", "gel", " ", "forming", ",", " ", "extended", " ", "release">>, <<<<"ophthalmic">>, <<"subcutaneous">>, <<"topical">>, <<"infiltration">>>>>>,
     <<<<"suspension">>, <<<<"oral">>, <<"intramuscular">>, <<"topical">>, <<"ophthalmic">>, <<"otic">>, <<"inhalation">>, <<"rectal">>, <<"subcutaneous">>>>>>,
     <<<<"suspension", " ", "/", " ", "drops">>, <<<<"ophthalmic">>, <<"oral">>, <<"otic">>>>>>,
     <<<<"suspension", ",", " ", "extended", " ", "release">>, <<<<"oral">>, <<"intramuscular">>, <<"subcutaneous">>>>>>,
     <<<<"powder">>, <<<<"topical">>, <<"oral">>, <<"inhalation">>>>>>,
     <<<<"powder", ",", " ", "for", " ", "solution">>, <<<<"oral">>, <<"intravenous">>, <<"intramuscular">>, <<"subcutaneous">>, <<"topical">>, <<"nasogastric">>>>>>,
     <<<<"powder", ",", " ", "for", " ", "suspension">>, <<<<"oral">>, <<"rectal">>, <<"subcutaneous">>>>>>,
     <<<<"powder", ",", " ", "metered">>, <<<<"inhalation">>, <<"oral">>, <<"subcutaneous">>>>>>,
     <<<<"powder", ",", " ", "dentifrice">>, <<<<"oral">>, <<"dental">>>>>>,
     <<<<"granule">>, <<<<"oral">>, <<"topical">>>>>>,
     <<<<"granule", ",", " ", "delayed", " ", "release">>, <<<<"oral">>, <<"extracorporeal">>>>>>,
     <<<<"granule", ",", " ", "effervescent">>, <<<<"oral">>, <<"topical">>>>>>,
     <<<<"granule", ",", " ", "for", " ", "solution">>, <<<<"oral">>, <<"topical">>, <<"nasal">>>>>>,
     <<<<"granule", ",", " ", "for", " ", "suspension">>, <<<<"oral">>>>>>,
     <<<<"aerosol">>, <<<<"topical">>, <<"inhalation">>, <<"dental">>, <<"oral">>>>>>,
     <<<<"aerosol", ",", " ", "foam">>, <<<<"topical">>, <<"dental">>, <<"rectal">>>>>>,
     <<<<"aerosol", ",", " ", "metered">>, <<<<"inhalation">>, <<"nasal">>, <<"oral">>, <<"sublingual">>, <<"topical">>>>>>,
     <<<<"aerosol", ",", " ", "powder">>, <<<<"topical">>, <<"inhalation">>, <<"oral">>>>>>,
     <<<<"spray">>, <<<<"topical">>, <<"nasal">>, <<"oral">>>>>>,
     <<<<"spray", ",", " ", "metered">>, <<<<"nasal">>, <<"topical">>, <<"inhalation">>>>>>,
     <<<<"spray", ",", " ", "suspension">>, <<<<"topical">>, <<"nasal">>, <<"intrasinal">>>>>>,
     <<<<"inhalant">>, <<<<"inhalation">>, <<"oral">>, <<"nasal">>, <<"topical">>>>>>,
     <<<<"inhaler">>, <<<<"inhalation">>>>>>, <<<<"gas">>, <<<<"inhalation">>>>>>,
     <<<<"nebule">>, <<<<"inhalation">>>>>>,
     <<<<"cream">>, <<<<"topical">>, <<"cutaneous">>>>>>,
     <<<<"ointment">>, <<<<"topical">>, <<"ophthalmic">>, <<"rectal">>>>>>,
     <<<<"gel">>, <<<<"topical">>, <<"dental">>, <<"extracorporeal">>, <<"oral">>>>>>,
     <<<<"gel", ",", " ", "metered">>, <<<<"topical">>, <<"transdermal">>, <<"nasal">>, <<"vaginal">>>>>>,
     <<<<"gel", ",", " ", "dentifrice">>, <<<<"dental">>, <<"oral">>, <<"topical">>>>>>,
     <<<<"lotion">>, <<<<"topical">>>>>>,
     <<<<"lotion", ",", " ", "augmented">>, <<<<"topical">>>>>>,
     <<<<"paste">>, <<<<"topical">>, <<"dental">>, <<"oral">>, <<"cutaneous">>>>>>,
     <<<<"paste", ",", " ", "dentifrice">>, <<<<"dental">>, <<"oral">>, <<"topical">>>>>>,
     <<<<"foam">>, <<<<"topical">>, <<"rectal">>, <<"vaginal">>>>>>,
     <<<<"emulsion">>, <<<<"topical">>, <<"intravenous">>, <<"oral">>, <<"ophthalmic">>>>>>,
     <<<<"shampoo">>, <<<<"topical">>, <<"cutaneous">>>>>>,
     <<<<"soap">>, <<<<"topical">>, <<"cutaneous">>>>>>,
     <<<<"oil">>, <<<<"topical">>, <<"cutaneous">>, <<"oral">>, <<"otic">>, <<"transdermal">>>>>>,
     <<<<"liniment">>, <<<<"topical">>, <<"percutaneous">>, <<"transdermal">>>>>>,
     <<<<"tincture">>, <<<<"topical">>, <<"oral">>, <<"inhalation">>>>>>,
     <<<<"liquid">>, <<<<"topical">>, <<"oral">>, <<"hemodialysis">>, <<"intravenous">>, <<"ophthalmic">>, <<"intramuscular">>, <<"subcutaneous">>>>>>,
     <<<<"swab">>, <<<<"topical">>, <<"oral">>>>>>,
     <<<<"cloth">>, <<<<"topical">>, <<"extracorporeal">>>>>>,
     <<<<"sponge">>, <<<<"topical">>, <<"oral">>, <<"vaginal">>>>>>,
     <<<<"dressing">>, <<<<"topical">>, <<"cutaneous">>, <<"oral">>>>>>,
     <<<<"stick">>, <<<<"topical">>>>>>, <<<<"salve">>, <<<<"topical">>>>>>,
     <<<<"jelly">>, <<<<"topical">>, <<"vaginal">>, <<"nasal">>>>>>,
     <<<<"patch">>, <<<<"topical">>, <<"transdermal">>, <<"cutaneous">>, <<"percutaneous">>>>>>,
     <<<<"patch", ",", " ", "extended", " ", "release">>, <<<<"transdermal">>, <<"topical">>>>>>,
     <<<<"plaster">>, <<<<"topical">>, <<"transdermal">>, <<"cutaneous">>>>>>,
     <<<<"poultice">>, <<<<"topical">>, <<"transdermal">>, <<"cutaneous">>, <<"percutaneous">>>>>>,
     <<<<"film">>, <<<<"buccal">>, <<"sublingual">>, <<"topical">>, <<"oral">>, <<"dental">>>>>>,
     <<<<"film", ",", " ", "soluble">>, <<<<"buccal">>, <<"sublingual">>, <<"oral">>, <<"vaginal">>, <<"topical">>>>>>,
     <<<<"film", ",", " ", "extended", " ", "release">>, <<<<"transdermal">>, <<"topical">>>>>>,
     <<<<"drop">>, <<<<"ophthalmic">>, <<"oral">>, <<"otic">>, <<"topical">>>>>>,
     <<<<"drops">>, <<<<"ophthalmic">>, <<"oral">>, <<"otic">>, <<"topical">>>>>>,
     <<<<"injection">>, <<<<"intravenous">>, <<"intramuscular">>, <<"subcutaneous">>, <<"intradermal">>, <<"cutaneous">>, <<"intrathecal">>, <<"parenteral">>>>>>,
     <<<<"injection", ",", " ", "emulsion">>, <<<<"intravenous">>, <<"subcutaneous">>, <<"intramuscular">>, <<"parenteral">>, <<"topical">>>>>>,
     <<<<"injection", ",", " ", "lipid", " ", "complex">>, <<<<"intravenous">>, <<"epidural">>, <<"intrathecal">>>>>>,
     <<<<"injection", ",", " ", "powder", ",", " ", "for", " ", "solution">>, <<<<"intravenous">>, <<"intramuscular">>, <<"subcutaneous">>, <<"oral">>>>>>,
     <<<<"injection", ",", " ", "powder", ",", " ", "for", " ", "suspension">>, <<<<"intramuscular">>, <<"subcutaneous">>, <<"intravenous">>>>>>,
     <<<<"injection", ",", " ", "powder", ",", " ", "lyophilized", ",", " ", "for", " ", "solution">>, <<<<"intravenous">>, <<"intramuscular">>, <<"subcutaneous">>>>>>,
     <<<<"injection", ",", " ", "powder", ",", " ", "lyophilized", ",", " ", "for", " ", "suspension">>, <<<<"intravenous">>, <<"subcutaneous">>, <<"intramuscular">>>>>>,
     <<<<"injection", ",", " ", "solution">>, <<<<"subcutaneous">>, <<"intradermal">>, <<"intravenous">>, <<"intramuscular">>, <<"percutaneous">>, <<"infiltration">>, <<"perineural">>>>>>,
     <<<<"injection", ",", " ", "solution", ",", " ", "concentrate">>, <<<<"intravenous">>, <<"intramuscular">>, <<"intraocular">>>>>>,
     <<<<"injection", ",", " ", "suspension">>, <<<<"intramuscular">>, <<"subcutaneous">>, <<"intra", "-", "articular">>, <<"intralesional">>>>>>,
     <<<<"injection", ",", " ", "suspension", ",", " ", "extended", " ", "release">>, <<<<"intramuscular">>, <<"subcutaneous">>>>>>,
     <<<<"injectable", ",", " ", "liposomal">>, <<<<"intravenous">>>>>>,
     <<<<"ampule">>, <<<<"parenteral">>, <<"intravenous">>, <<"intramuscular">>, <<"subcutaneous">>>>>>,
     <<<<"vial">>, <<<<"parenteral">>, <<"intravenous">>, <<"intramuscular">>, <<"subcutaneous">>>>>>,
     <<<<"bottle">>, <<<<"intravenous">>, <<"oral">>>>>>, <<<<"bag">>, <<<<"intravenous">>>>>>,
     <<<<"suppository">>, <<<<"rectal">>, <<"vaginal">>, <<"urethral">>>>>>,
     <<<<"enema">>, <<<<"rectal">>>>>>,
     <<<<"insert">>, <<<<"vaginal">>, <<"ophthalmic">>, <<"conjunctival">>>>>>,
     <<<<"insert", ",", " ", "extended", " ", "release">>, <<<<"vaginal">>, <<"intrauterine">>, <<"periodontal">>, <<"topical">>>>>>,
     <<<<"ring">>, <<<<"vaginal">>>>>>, <<<<"ovule">>, <<<<"vaginal">>>>>>,
     <<<<"implant">>, <<<<"subcutaneous">>, <<"intravitreal">>, <<"intra", "-", "articular">>, <<"intraocular">>, <<"parenteral">>, <<"intradermal">>>>>>,
     <<<<"pellet", ",", " ", "implantable">>, <<<<"subcutaneous">>, <<"parenteral">>>>>>,
     <<<<"kit">>, <<<<"oral">>, <<"topical">>, <<"ophthalmic">>, <<"inhalation">>, <<"intravenous">>, <<"intramuscular">>, <<"infiltration">>, <<"subcutaneous">>, <<"epidural">>, <<"intra", "-", "articular">>>>>>,
     <<<<"strip">>, <<<<"oral">>, <<"ophthalmic">>, <<"topical">>, <<"dental">>>>>>,
     <<<<"wafer">>, <<<<"oral">>, <<"intracavitary">>, <<"intralesional">>>>>>,
     <<<<"pellet">>, <<<<"oral">>, <<"subcutaneous">>, <<"ophthalmic">>, <<"topical">>>>>>,
     <<<<"concentrate">>, <<<<"oral">>, <<"intradermal">>, <<"percutaneous">>, <<"subcutaneous">>, <<"topical">>>>>>,
     <<<<"irrigant">>, <<<<"irrigation">>, <<"urethral">>, <<"topical">>, <<"intravesical">>, <<"ophthalmic">>>>>>,
     <<<<"bead">>, <<<<"cutaneous">>, <<"topical">>, <<"oral">>>>>>}

FORM_TO_ROUTES == DictOf(FORM_TO_ROUTES_ITEMS, Phrases)

FORM_EQUIVALENCE_GROUPS ==
    <<{Phrase(<<"caplet">>), Phrase(<<"capsule">>), Phrase(<<"tablet">>)},
      {Phrase(<<"elixir">>), Phrase(<<"solution">>), Phrase(<<"syrup">>)},
      {Phrase(<<"suspension">>)},
      {Phrase(<<"cream">>), Phrase(<<"gel">>), Phrase(<<"ointment">>)},
      {Phrase(<<"ampule">>), Phrase(<<"injection">>), Phrase(<<"vial">>)},
      {Phrase(<<"aerosol">>), Phrase(<<"dpi">>), Phrase(<<"inhaler">>), Phrase(<<"mdi">>), Phrase(<<"nebule">>)},
      {Phrase(<<"drops">>)}>>

\* the loop that fills FORM_EQUIVALENTS: every form of a group maps to its
\* group, a later group replacing an earlier one
FORM_EQUIVALENTS ==
    [f \in UNION {FORM_EQUIVALENCE_GROUPS[i] : i \in DOMAIN FORM_EQUIVALENCE_GROUPS} |->
        FORM_EQUIVALENCE_GROUPS[CHOOSE i \in DOMAIN FORM_EQUIVALENCE_GROUPS :
            /\ f \in FORM_EQUIVALENCE_GROUPS[i]
            /\ \A j \in DOMAIN FORM_EQUIVALENCE_GROUPS :
                  f \in FORM_EQUIVALENCE_GROUPS[j] => j <= i]]

get_canonical_form(form) ==
    IF upper(form) \in DOMAIN FORM_CANON THEN FORM_CANON[upper(form)] ELSE upper(form)

\* an equivalence that looks at the groups only
EquivalentInGroupOnly(f1, f2) ==
    f1 \in DOMAIN FORM_EQUIVALENTS /\ f2 \in FORM_EQUIVALENTS[f1]

\* forms_are_equivalent from the two canonical forms on
EquivalentCanonical(f1, f2) ==
    IF f1 = f2 THEN TRUE
    ELSE IF f1 \in DOMAIN FORM_EQUIVALENTS /\ FORM_EQUIVALENTS[f1] # {}
            /\ f2 \in FORM_EQUIVALENTS[f1]
         THEN TRUE
         ELSE FALSE

forms_are_equivalent(form1, form2) ==
    EquivalentCanonical(get_canonical_form(form1), get_canonical_form(form2))

\* FORM_TO_ROUTE.get(canonical) or FORM_TO_ROUTE.get(form.upper())
SingleRoute(form, canonical) ==
    PyOr(DictGet(UNIFIED_FORM_TO_ROUTE, canonical), DictGet(UNIFIED_FORM_TO_ROUTE, upper(form)))

\* infer_route_from_form from the canonical form on
RouteFromCanonical(form, canonical) ==
    IF canonical \in DOMAIN FORM_TO_ROUTES
    THEN IF FORM_TO_ROUTES[canonical] = <<>> THEN Raise
         ELSE Ret(Str(FORM_TO_ROUTES[canonical][1]))
    ELSE Ret(SingleRoute(form, canonical))

\* infer_route_from_form(form): the str or None returned, or the IndexError
infer_route_from_form(form) == RouteFromCanonical(form, get_canonical_form(form))

\* a route list that takes the single-route table first
RoutesSingleFirst(form, canonical) ==
    IF Truthy(SingleRoute(form, canonical)) THEN <<SingleRoute(form, canonical).s>>
    ELSE IF canonical \in DOMAIN FORM_TO_ROUTES THEN FORM_TO_ROUTES[canonical]
    ELSE <<>>

\* get_valid_routes_for_form from the canonical form on
RoutesFromCanonical(form, canonical) ==
    IF canonical \in DOMAIN FORM_TO_ROUTES THEN FORM_TO_ROUTES[canonical]
    ELSE IF Truthy(SingleRoute(form, canonical)) THEN <<SingleRoute(form, canonical).s>>
    ELSE <<>>

get_valid_routes_for_form(form) == RoutesFromCanonical(form, get_canonical_form(form))

----------------------------------------------------------------------------
(* Reference data and the lazy process-wide caches (drug_scraper.py)       *)

\* A row of drugbank_generics_master.csv as csv.DictReader yields it
RefRow(id, canonical, lexeme) ==
    [drugbank_id |-> Str(id), canonical_generic_name |-> Str(canonical),
     lexeme |-> Str(lexeme)]

\* A candidate path: is_file, the rows of the file, and error_at = k > 0 when
\* reading raises before row k is processed (k = 1: open() itself fails;
\* k = Len(rows) + 1: a decoding error after the last row)
RefPath(is_file, file_rows, error_at) ==
    [is_file |-> is_file, rows |-> file_rows, error_at |-> error_at]

AbsentPath == RefPath(FALSE, <<>>, 0)

\* (row.get(k) or "").strip()
FieldStripped(v) == IF Truthy(v) THEN strip(v.s) ELSE <<>>

EmptyDict == <<>>

NAN == <<U("nan")>>

\* dict[k] = v
DictSet(d, k, v) == (k :> v) @@ d
\* defaultdict(set)[k].add(v)
GroupAdd(d, k, v) == IF k \in DOMAIN d THEN [d EXCEPT ![k] = @ \cup {v}] ELSE (k :> {v}) @@ d

\* the body of the reader loop for the stripped fields of one row; ld holds
\* generics, synonym_groups, canonical_by_id and the insertion order of the
\* keys of synonym_groups
ReadFields(ld, db_id, canonical, lexeme) ==
    IF db_id = <<>> THEN ld
    ELSE [generics |->
              ld.generics
                  \cup (IF canonical # <<>> /\ canonical # NAN THEN {canonical} ELSE {})
                  \cup (IF lexeme # <<>> /\ lexeme # NAN THEN {lexeme} ELSE {}),
          synonyms |-> ld.synonyms,
          synonym_groups |->
              IF lexeme # <<>> /\ lexeme # NAN
              THEN GroupAdd(IF canonical # <<>> /\ canonical # NAN
                            THEN GroupAdd(ld.synonym_groups, db_id, canonical)
                            ELSE ld.synonym_groups,
                            db_id, lexeme)
              ELSE IF canonical # <<>> /\ canonical # NAN
                   THEN GroupAdd(ld.synonym_groups, db_id, canonical)
                   ELSE ld.synonym_groups,
          canonical_by_id |->
              IF canonical # <<>> /\ canonical # NAN
              THEN DictSet(ld.canonical_by_id, db_id, canonical)
              ELSE ld.canonical_by_id,
          group_order |->
              IF /\ (canonical # <<>> /\ canonical # NAN) \/ (lexeme # <<>> /\ lexeme # NAN)
                 /\ db_id \notin DOMAIN ld.synonym_groups
              THEN Append(ld.group_order, db_id) ELSE ld.group_order]

\* the body of the reader loop for one row
ReadRow(ld, row) ==
    ReadFields(ld, FieldStripped(row.drugbank_id),
               upper(FieldStripped(row.canonical_generic_name)),
               upper(FieldStripped(row.lexeme)))

\* the reader loop over the first n rows
RECURSIVE ReadRows(_, _, _)
ReadRows(ld, file_rows, n) ==
    IF n = 0 THEN ld ELSE ReadRow(ReadRows(ld, file_rows, n - 1), file_rows[n])

\* the synonyms one group adds: every name but the canonical one maps to it
GroupSynonyms(names, canonical) == [n \in names \ {canonical} |-> canonical]

\* the loop that fills synonyms from the groups, in insertion order
RECURSIVE BuildSynonyms(_, _, _)
BuildSynonyms(ld, order, synonyms) ==
    IF order = <<>> THEN synonyms
    ELSE IF Head(order) \in DOMAIN ld.canonical_by_id
         THEN BuildSynonyms(ld, Tail(order),
                  GroupSynonyms(ld.synonym_groups[Head(order)],
                                ld.canonical_by_id[Head(order)]) @@ synonyms)
         ELSE BuildSynonyms(ld, Tail(order), synonyms)

\* after the reader loop ended without exception: synonyms are built
WithSynonyms(ld) == [ld EXCEPT !.synonyms = BuildSynonyms(ld, ld.group_order, @)]

\* a loop over possible_paths that reads every path to its end, whether it is
\* a file that can be read or not
RECURSIVE LoadPathsUnguarded(_, _, _)
LoadPathsUnguarded(paths, i, ld) ==
    IF i > Len(paths) THEN WithSynonyms(ld)
    ELSE LoadPathsUnguarded(paths, i + 1, ReadRows(ld, paths[i].rows, Len(paths[i].rows)))

\* the loop over possible_paths from path i on
RECURSIVE LoadPaths(_, _, _)
LoadPaths(paths, i, ld) ==
    IF i > Len(paths) THEN ld
    ELSE IF ~paths[i].is_file THEN LoadPaths(paths, i + 1, ld)
    ELSE IF paths[i].error_at > 0
         THEN \* the except branch: what was added so far stays, next path
              LoadPaths(paths, i + 1, ReadRows(ld, paths[i].rows, paths[i].error_at - 1))
         ELSE \* the file is read to its end, synonyms are built, break
              WithSynonyms(ReadRows(ld, paths[i].rows, Len(paths[i].rows)))

\* the pair _load_drugbank_data builds
LoadedPair(ld) == [generics |-> ld.generics, synonyms |-> ld.synonyms]

\* the construction part of _load_drugbank_data: generics and synonyms read
\* from the reference paths
ConstructFromReference(paths) ==
    LoadedPair(LoadPaths(paths, 1,
                         [generics |-> {}, synonyms |-> EmptyDict,
                          synonym_groups |-> EmptyDict, canonical_by_id |-> EmptyDict,
                          group_order |-> <<>>]))

\* A cache or local holds None or an object: id tells objects apart (0 is
\* None), val is its content
NoneObj == [id |-> 0, val |-> {}]
Obj(id, val) == [id |-> id, val |-> val]
IsNone(o) == o.id = 0

\* the words _build_aho_automaton adds to the automaton
AutomatonWords(generics) == {g \in generics : g # <<>>}

----------------------------------------------------------------------------
(* Sample data                                                             *)

Acetylcysteine == <<T("acetyl"), L("cysteine")>>
Acetylflux == <<T("acetyl"), L("flux")>>
Amlodipine == <<T("amlodipine")>>
Norvasc == <<T("norvasc")>>
Amoxil == <<T("amoxil")>>
Amoxicillin == <<T("amoxicillin")>>
Paracetamol == <<T("paracetamol")>>

\* rows of the reference file: a lexeme that is a prefix of another name
\* (ACETYL), a canonical name with a synonym, a "nan" lexeme, an empty lexeme
\* and a row without id
FullRows ==
    <<RefRow(<<L("db1")>>, Acetylcysteine, <<T("acetyl")>>),
      RefRow(<<L("db2")>>, <<T("acetaminophen")>>, Paracetamol),
      RefRow(<<L("db3")>>, Amlodipine, Amlodipine),
      RefRow(<<L("db4")>>, Amoxicillin, <<>>),
      RefRow(<<L("db5")>>, <<T("metformin")>>, <<L("nan")>>),
      RefRow(<<>>, Norvasc, Norvasc)>>

OtherRows == <<RefRow(<<L("db3")>>, Amlodipine, <<>>)>>

\* a file that is there and fails before its first row is read
UnreadableReference == <<RefPath(TRUE, FullRows, 1), AbsentPath>>

\* the reference data a process can find: no file, the file, or a first file
\* that fails while it is read and a second, smaller file
ReferenceStates ==
    {<<AbsentPath, AbsentPath>>,
     <<RefPath(TRUE, FullRows, 0), AbsentPath>>,
     <<RefPath(TRUE, FullRows, 3), RefPath(TRUE, OtherRows, 0)>>,
     UnreadableReference}

FullReference == <<RefPath(TRUE, FullRows, 0), AbsentPath>>

----------------------------------------------------------------------------
(* The process: module state set at import, caches empty                   *)

CachesEmpty ==
    /\ _DRUGBANK_GENERICS_CACHE = NoneObj
    /\ _DRUGBANK_SYNONYMS_CACHE = NoneObj
    /\ _DRUGBANK_AUTOMATON_CACHE = NoneObj
    /\ loads = 0
    /\ automaton_attempts = 0
    /\ automaton_builds = 0

\* a process that has imported drug_scraper
ProcInit ==
    /\ reference \in ReferenceStates
    /\ aho_available \in BOOLEAN
    /\ FORM_WORDS \in FormWordOrders
    /\ CachesEmpty

\* a process that has imported text_utils only
ProcTextOnly ==
    /\ reference = <<>>
    /\ aho_available = FALSE
    /\ FORM_WORDS = <<>>
    /\ CachesEmpty

\* what _load_drugbank_data returns and leaves in the caches after it built
\* the pair
LoadedBy(built, n_loads) ==
    [generics |-> Obj(n_loads, built.generics), synonyms |-> Obj(n_loads, built.synonyms),
     cache_g |-> Obj(n_loads, built.generics), cache_s |-> Obj(n_loads, built.synonyms),
     loads |-> n_loads]

\* _load_drugbank_data(): the returned objects, the caches and the number of
\* constructions after the call
_load_drugbank_data(cache_g, cache_s, paths, n_loads) ==
    IF ~IsNone(cache_g) /\ ~IsNone(cache_s)
    THEN [generics |-> cache_g, synonyms |-> cache_s,
          cache_g |-> cache_g, cache_s |-> cache_s, loads |-> n_loads]
    ELSE LoadedBy(ConstructFromReference(paths), n_loads + 1)

\* _build_aho_automaton(generics): the returned automaton (None when the
\* import fails), the cache and the counters after the call
_build_aho_automaton(generics, cache_a, available, attempts, builds) ==
    IF ~IsNone(cache_a)
    THEN [automaton |-> cache_a, cache_a |-> cache_a, attempts |-> attempts, builds |-> builds]
    ELSE IF available
         THEN [automaton |-> Obj(builds + 1, AutomatonWords(generics.val)),
               cache_a |-> Obj(builds + 1, AutomatonWords(generics.val)),
               attempts |-> attempts + 1, builds |-> builds + 1]
         ELSE [automaton |-> NoneObj, cache_a |-> cache_a, attempts |-> attempts + 1,
               builds |-> builds]

----------------------------------------------------------------------------
(* normalize_text applied once and then to its own result                  *)

MaxTextLen == 4

\* the chunks the checked inputs of normalize_text are made of
NormAlphabet == {L("milli"), L("litre"), SP, L("("), U("iv"), L("gm"), L("5")}

RECURSIVE SeqsUpTo(_, _)
SeqsUpTo(S, n) ==
    IF n = 0 THEN {<<>>}
    ELSE LET shorter == SeqsUpTo(S, n - 1)
         IN shorter \cup {Append(s, x) : s \in {t \in shorter : Len(t) = n - 1}, x \in S}

NoText == <<>>

IdleNormalize == text = PyNone /\ norm_pc = "idle" /\ norm1 = NoText /\ norm2 = NoText
IdleSplit == split_arg = PyNone /\ split_pc = "idle" /\ split_out = [base |-> <<>>, salts |-> <<>>]
IdleFlip ==
    /\ flip_brand = PyNone /\ flip_generic = PyNone /\ flip_pc = "idle"
    /\ flip_locals = [brand_is_generic |-> FALSE, generic_is_generic |-> FALSE]
    /\ flip_result = Ret(FALSE)
IdleMap ==
    /\ rows = <<>> /\ row_idx = 0 /\ seen = {} /\ out = <<>> /\ flip_count = 0
    /\ map_pc = "idle" /\ drugbank_generics = NoneObj /\ map_automaton = NoneObj
    /\ result = <<>>
IdleWorkers == wpc = <<>> /\ wlocal = <<>>
IdleForms == form_a = <<>> /\ form_b = <<>> /\ form_pc = "idle" /\ form_out = <<>>
IdleVaccine == vaccine_arg = <<>> /\ vaccine_pc = "idle" /\ vaccine_out = <<>>
IdleRun ==
    /\ run_pc = "idle" /\ run_args = <<>> /\ run_files = <<>> /\ run_locals = <<>>
    /\ run_result = <<>>

InitNormalize ==
    /\ text \in {Str(s) : s \in SeqsUpTo(NormAlphabet, MaxTextLen)} \cup {PyNone}
    /\ norm_pc = "start"
    /\ norm1 = NoText
    /\ norm2 = NoText
    /\ ProcTextOnly /\ IdleSplit /\ IdleFlip /\ IdleMap /\ IdleWorkers
    /\ IdleForms /\ IdleVaccine /\ IdleRun

Normalize ==
    /\ norm_pc = "start"
    /\ norm1' = normalize_text(text)
    /\ norm_pc' = "once"
    /\ UNCHANGED <<text, norm2, splitVars, flipVars, procVars, mapVars, workerVars, tableVars>>

Renormalize ==
    /\ norm_pc = "once"
    /\ norm2' = normalize_text(Str(norm1))
    /\ norm_pc' = "twice"
    /\ UNCHANGED <<text, norm1, splitVars, flipVars, procVars, mapVars, workerVars, tableVars>>

NextNormalize == Normalize \/ Renormalize

SpecNormalize == InitNormalize /\ [][NextNormalize]_vars

\* C4: normalize_text is idempotent: a second application leaves the result
\* of the first unchanged
NormalizeIdempotent == norm_pc = "twice" => norm2 = norm1

----------------------------------------------------------------------------
(* extract_base_and_salts applied to a raw ingredient text                 *)

MaxSplitTokens == 3

\* the words the checked inputs of extract_base_and_salts are made of
SplitWords ==
    {<<T("metformin")>>, <<T("hydrochloride")>>, <<U("sodium")>>, <<L("as")>>,
     <<L("+")>>, <<L("salts")>>, <<L("5"), L("mg")>>}

\* "used as a rescue inhaler"
RescueInhaler ==
    join(<<Tok("used"), Tok("as"), Tok("a"), Tok("rescue"), Tok("inhaler")>>)

\* longer texts: 'as' before a non-salt tail, before salts joined by and/or,
\* before a salt followed by a dose, a percent sign or "per", and bases joined
\* by "/" and "&"
SplitSamples ==
    {RescueInhaler,
     join(<<Tok("metformin"), Tok("as"), Tok("sodium"), <<L("and"), L("/"), L("or")>>,
            Tok("hydrochloride")>>),
     join(<<Tok("metformin"), Tok("as"), Tok("hydrochloride"), <<L("5"), L("mg")>>>>),
     join(<<Tok("metformin"), Tok("as"), Tok("hydrochloride"), Tok("%")>>),
     join(<<Tok("metformin"), Tok("as"), Tok("hydrochloride"), Tok("per"), Tok("tablet")>>),
     join(<<Tok("metformin"), Tok("as"), Tok("hydrochloride"), Tok("with"),
            Tok("paracetamol")>>),
     join(<<Tok("metformin"), Tok("as"), Tok("hydrochloride"), Tok("inhaler")>>),
     join(<<Tok("metformin"), Tok("/"), Tok("paracetamol"), Tok("hydrochloride")>>),
     join(<<Tok("metformin"), Tok("/"), Tok("sodium")>>),
     join(<<Tok("metformin"), Tok("&"), Tok("paracetamol")>>),
     join(<<Tok("metformin"), Tok("hydrochloride"), Tok("hydrochloride"), Tok("sodium"),
            Tok("salt")>>),
     <<SP, SP>>}

SplitInputs ==
    {Str(c) : c \in PURE_SALT_COMPOUNDS}
        \cup {Str(join(ts)) : ts \in SeqsUpTo(SplitWords, MaxSplitTokens)}
        \cup {Str(s) : s \in SplitSamples}
        \cup {PyNone}

InitSplit ==
    /\ split_arg \in SplitInputs
    /\ split_pc = "start"
    /\ split_out = [base |-> <<>>, salts |-> <<>>]
    /\ ProcTextOnly /\ IdleNormalize /\ IdleFlip /\ IdleMap /\ IdleWorkers
    /\ IdleForms /\ IdleVaccine /\ IdleRun

Split ==
    /\ split_pc = "start"
    /\ split_out' = extract_base_and_salts(split_arg)
    /\ split_pc' = "done"
    /\ UNCHANGED <<split_arg, normVars, flipVars, procVars, mapVars, workerVars, tableVars>>

NextSplit == Split

SpecSplit == InitSplit /\ [][NextSplit]_vars

\* C5: the split of a pure-salt compound of the whitelist is the compound
\* itself as base, with no salts
PureSaltRoundTrip ==
    (split_pc = "done" /\ split_arg.t = "str" /\ split_arg.s \in PURE_SALT_COMPOUNDS)
        => split_out = [base |-> split_arg.s, salts |-> <<>>]

\* the tokens from position i up to the next connective token or the end are
\* all salt words or "and/or"
SaltWordsUpToConnective(tokens, i) ==
    \A j \in i..Len(tokens) :
        (\A k \in i..j : lower(tokens[k]) \notin _SALT_TAIL_BREAK_TOKENS)
            => \/ lower(tokens[j]) \in SALT_TOKEN_WORDS
               \/ lower(tokens[j]) = <<L("and"), L("/"), L("or")>>

\* C13: the boundary extract_base_and_salts splits at is an 'as' token whose
\* following tokens, up to the next connective or the end, are salt words or
\* "and/or"; a token with a digit, a bare '%' or "per", or any other word
\* among them rejects the boundary; "used as a rescue inhaler" has no salts
AsBoundaryBeforeSaltTailOnly ==
    (split_pc = "done" /\ split_arg.t = "str") =>
        /\ \E tokens \in {split(normalize_text(split_arg))} :
           \E boundary \in {detect_as_boundary(normalize_text(split_arg))} :
              boundary # NoBoundary =>
                 /\ tokens[boundary] = Tok("as")
                 /\ SaltWordsUpToConnective(tokens, boundary + 1)
        /\ split_arg.s = RescueInhaler => split_out.salts = <<>>

\* a base name that begins or ends with one of the symbols + / &
EdgeConnective(base) ==
    /\ base # <<>>
    /\ \/ base[1].w \in {"+", "/", "&"}
       \/ base[Len(base)].w \in {"+", "/", "&"}

\* C14: the base name of a split never begins or ends with a connective
\* symbol
NoEdgeConnective ==
    (split_pc = "done" /\ split_arg.t = "str") => ~EdgeConnective(split_out.base)

\* the salts found behind an 'as' boundary that opens the text
SaltsBehindLeadingAs(norm) ==
    UniqueInOrder(SaltCandidateLoop(SubSeq(split(norm), 2, Len(split(norm)))), {})

\* C15: a split has no empty base next to salts, and an empty base only for
\* an empty or blank text; when the text opens with the 'as' boundary, so that
\* there is no base token, the salts behind it joined are the base and the
\* salt list is empty; when the text has no token with a letter, nothing
\* survives and the base is the raw text in upper case
BaseNeverEmptyWithSalts ==
    (split_pc = "done" /\ split_arg.t = "str") =>
        /\ ~(split_out.base = <<>> /\ split_out.salts # <<>>)
        /\ split_out.base = <<>> => strip(split_arg.s) = <<>>
        /\ \E norm \in {normalize_text(split_arg)} :
              /\ (detect_as_boundary(norm) = 1 /\ SaltsBehindLeadingAs(norm) # <<>>)
                    => split_out = [base |-> join(SaltsBehindLeadingAs(norm)),
                                    salts |-> <<>>]
              /\ (\A i \in 1..Len(split(norm)) : ~HasAZ(split(norm)[i]))
                    => split_out = [base |-> upper(strip(split_arg.s)), salts |-> <<>>]

\* C15 witness: "as hydrochloride" came out as base HYDROCHLORIDE, no salts
SaltsBecameBase ==
    /\ split_pc = "done"
    /\ split_arg = Str(join(<<Tok("as"), <<T("hydrochloride")>>>>))
    /\ detect_as_boundary(normalize_text(split_arg)) = 1
    /\ split_out = [base |-> <<U("hydrochloride")>>, salts |-> <<>>]

\* "metformin hydrochloride hydrochloride sodium salt"
RepeatedSalts ==
    join(<<Tok("metformin"), Tok("hydrochloride"), Tok("hydrochloride"), Tok("sodium"),
           Tok("salt")>>)

\* C16: every salt of a split is a word of the salt vocabulary in upper case
\* and not one of the noise words SALT and SALTS; no salt occurs twice, and a
\* repeated salt stays where it came first
SaltsAreUniqueVocabularyWords ==
    (split_pc = "done" /\ split_arg.t = "str") =>
        /\ \A i \in 1..Len(split_out.salts) :
              /\ split_out.salts[i] = upper(split_out.salts[i])
              /\ lower(split_out.salts[i]) \in SALT_TOKEN_WORDS \ NoiseSaltWords
        /\ \A i, j \in 1..Len(split_out.salts) :
              i # j => split_out.salts[i] # split_out.salts[j]
        /\ split_arg.s = RepeatedSalts
              => split_out.salts = <<<<U("hydrochloride")>>, <<U("sodium")>>>>

\* C16 witness: the text with HYDROCHLORIDE twice, SODIUM and SALT was split
\* into METFORMIN with the salts HYDROCHLORIDE and SODIUM
RepeatedSaltsSplit ==
    /\ split_pc = "done"
    /\ split_arg = Str(RepeatedSalts)
    /\ split_out = [base |-> <<U("metformin")>>,
                    salts |-> <<<<U("hydrochloride")>>, <<U("sodium")>>>>]

----------------------------------------------------------------------------
(* _detect_brand_generic_flip(brand, generic) called with its defaults     *)

FlipNames ==
    {Acetylcysteine, Acetylflux, <<T("nacel")>>, <<T("biogesic")>>, Paracetamol,
     Amlodipine, Norvasc, <<>>,
     <<T("metformin"), SP, T("hydrochloride")>>,
     Amlodipine \o <<SP, T("besilate")>>, Amlodipine \o <<SP, T("mesilate")>>,
     Amlodipine \o <<SP, L("+"), SP>> \o Paracetamol,
     Amlodipine \o <<SP, L("+"), SP>> \o Norvasc,
     <<U("amlodipine"), SP, U("as"), SP, U("besilate"), SP, L("+"), SP, U("norvasc")>>}

FlipArguments == {Str(s) : s \in FlipNames} \cup {PyNone, PyInt(0), PyInt(5)}

InitFlip ==
    /\ flip_brand \in FlipArguments
    /\ flip_generic \in FlipArguments
    /\ flip_pc = "start"
    /\ flip_locals = [brand_is_generic |-> FALSE, generic_is_generic |-> FALSE]
    /\ flip_result = Ret(FALSE)
    /\ ProcInit /\ IdleNormalize /\ IdleSplit /\ IdleMap /\ IdleWorkers
    /\ IdleForms /\ IdleVaccine /\ IdleRun

\* the whole call: the early return, the lazy load of the vocabulary and of
\* the automaton, the two matches and the decision
DetectFlip ==
    /\ flip_pc = "start"
    /\ flip_pc' = "done"
    /\ IF ~Truthy(flip_brand) \/ ~Truthy(flip_generic)
       THEN /\ flip_result' = Ret(FALSE)
            /\ UNCHANGED <<flip_locals, procVars>>
       ELSE \E ld \in {_load_drugbank_data(_DRUGBANK_GENERICS_CACHE,
                                           _DRUGBANK_SYNONYMS_CACHE, reference, loads)} :
            \E au \in {_build_aho_automaton(ld.generics, _DRUGBANK_AUTOMATON_CACHE,
                                            aho_available, automaton_attempts,
                                            automaton_builds)} :
            \E b \in {_is_exact_generic_match(flip_brand, au.automaton, ld.generics.val)} :
            \E g \in {_is_exact_generic_match(flip_generic, au.automaton, ld.generics.val)} :
               /\ _DRUGBANK_GENERICS_CACHE' = ld.cache_g
               /\ _DRUGBANK_SYNONYMS_CACHE' = ld.cache_s
               /\ loads' = ld.loads
               /\ _DRUGBANK_AUTOMATON_CACHE' = au.cache_a
               /\ automaton_attempts' = au.attempts
               /\ automaton_builds' = au.builds
               /\ flip_locals' = [brand_is_generic |-> b.value,
                                  generic_is_generic |-> (~b.raised /\ g.value)]
               /\ flip_result' = FlipDecision(b, g)
               /\ UNCHANGED <<reference, aho_available, FORM_WORDS>>
    /\ UNCHANGED <<flip_brand, flip_generic, normVars, splitVars, mapVars, workerVars, tableVars>>

NextFlip == DetectFlip

SpecFlip == InitFlip /\ [][NextFlip]_vars

\* the vocabulary the finished call has matched against
LoadedVocabulary == _DRUGBANK_GENERICS_CACHE.val

\* C1: a finished call returns True only when the brand is an exact match and
\* the generic is not; when both match, neither matches or a field is empty
\* it returns False
FlipOnlyOnAsymmetricEvidence ==
    (flip_pc = "done" /\ ~flip_result.raised) =>
        /\ flip_result.value =>
              flip_locals.brand_is_generic /\ ~flip_locals.generic_is_generic
        /\ (flip_locals.brand_is_generic /\ flip_locals.generic_is_generic)
              => ~flip_result.value
        /\ (~flip_locals.brand_is_generic /\ ~flip_locals.generic_is_generic)
              => ~flip_result.value
        /\ (~Truthy(flip_brand) \/ ~Truthy(flip_generic)) => ~flip_result.value

\* C1 witness: the brand is in the vocabulary, the generic is not, and the call
\* returned True
FlipOnAsymmetricEvidenceReached ==
    /\ flip_pc = "done"
    /\ flip_brand = Str(Acetylcysteine)
    /\ flip_generic = Str(<<T("nacel")>>)
    /\ flip_locals = [brand_is_generic |-> TRUE, generic_is_generic |-> FALSE]
    /\ flip_result = Ret(TRUE)

\* C22: a brand that is a name of the vocabulary followed by a word of the
\* salt vocabulary is an exact match
SaltSuffixedNameMatches ==
    (/\ flip_pc = "done" /\ ~flip_result.raised
     /\ Truthy(flip_brand) /\ Truthy(flip_generic)
     /\ Len(flip_brand.s) = 3
     /\ IsSpace(flip_brand.s[2])
     /\ <<UpperChunk(flip_brand.s[3])>> \in SALT_TOKENS
     /\ <<UpperChunk(flip_brand.s[1])>> \in LoadedVocabulary)
        => flip_locals.brand_is_generic

\* C7: a brand with '+'-separated parts of which one is not a vocabulary name
\* is not an exact match and is not flagged as a flip
PartialCombinationNeverMatches ==
    (/\ flip_pc = "done"
     /\ flip_brand.t = "str" /\ ~flip_result.raised
     /\ HasPlus(strip(upper(flip_brand.s)))
     /\ ~AllPartsGeneric(strip(upper(flip_brand.s)), LoadedVocabulary))
        => ~flip_locals.brand_is_generic /\ flip_result = Ret(FALSE)

\* a single word that is no vocabulary name and contains one
ContainsGenericOnly(name, generics) ==
    /\ name # <<>>
    /\ \A i \in 1..Len(name) : IsAlpha(name[i])
    /\ upper(name) \notin generics
    /\ \E g \in generics : g # <<>> /\ OccursIn(g, upper(name))

\* C8: a brand that only contains a vocabulary name inside a longer word is
\* not flagged; with ACETYL, ACETYLCYSTEINE and PARACETAMOL in the vocabulary,
\* Acetylflux/Acetylcysteine and Biogesic/Paracetamol are not flips and
\* Acetylcysteine/Nacel is one
SubstringNeverFlagged ==
    (flip_pc = "done" /\ flip_brand.t = "str" /\ ~flip_result.raised) =>
        /\ ContainsGenericOnly(flip_brand.s, LoadedVocabulary) => flip_result = Ret(FALSE)
        /\ (reference = FullReference /\ flip_brand = Str(Acetylflux)
                /\ flip_generic = Str(Acetylcysteine)) => flip_result = Ret(FALSE)
        /\ (reference = FullReference /\ flip_brand = Str(<<T("biogesic")>>)
                /\ flip_generic = Str(Paracetamol)) => flip_result = Ret(FALSE)
        /\ (reference = FullReference /\ flip_brand = Str(Acetylcysteine)
                /\ flip_generic = Str(<<T("nacel")>>)) => flip_result = Ret(TRUE)

\* C8 witness: Acetylflux, which contains ACETYL, was checked against a
\* generic column outside the vocabulary and was not flagged
SubstringBrandChecked ==
    /\ flip_pc = "done"
    /\ reference = FullReference
    /\ flip_brand = Str(Acetylflux)
    /\ flip_generic = Str(Norvasc)
    /\ ContainsGenericOnly(flip_brand.s, LoadedVocabulary)
    /\ flip_result = Ret(FALSE)

----------------------------------------------------------------------------
(* build_brand_map(rows)                                                   *)

\* A scraped row: a dict whose missing keys read as None, or (is_dict FALSE)
\* something that is not a dict
Row(brand, generic, form, strength, regno) ==
    [is_dict |-> TRUE, brand_name |-> brand, generic_name |-> generic,
     dosage_form |-> form, dosage_strength |-> strength,
     registration_number |-> regno]

NotADict == [Row(PyNone, PyNone, PyNone, PyNone, PyNone) EXCEPT !.is_dict = FALSE]

\* (r.get(field) or "").strip(): raises when r has no get() or the value is
\* truthy and has no strip()
GetStripped(r, v) ==
    IF ~r.is_dict THEN Raise
    ELSE IF ~Truthy(v) THEN Ret(<<>>)
    ELSE IF v.t = "str" THEN Ret(strip(v.s))
    ELSE Raise

\* x or "" for an Optional[str]
OrEmpty(v) == IF Truthy(v) THEN v.s ELSE <<>>

RowOutcome(raised, skipped, flipped, seen_after, emitted) ==
    [raised |-> raised, skipped |-> skipped, flipped |-> flipped,
     seen |-> seen_after, emitted |-> emitted]

\* the key of the seen set
DedupKey(brand, generic, fr, dosage_strength) ==
    <<lower(brand), lower(generic), lower(OrEmpty(fr.form_token)), lower(OrEmpty(fr.route)),
      lower(dosage_strength)>>

\* the dict appended to out
OutputRow(brand, generic, dosage_form, fr, dosage_strength, regno) ==
    [brand_name |-> brand,
     generic_name |-> generic,
     dosage_form |-> IF Truthy(fr.form_token) THEN fr.form_token.s ELSE dosage_form,
     route |-> OrEmpty(fr.route),
     dosage_strength |-> dosage_strength,
     registration_number |-> regno]

\* "if key in seen: continue", seen.add(key), out.append(row)
RowKeyed(key, row, is_flip, seen_keys) ==
    IF key \in seen_keys THEN RowOutcome(FALSE, TRUE, is_flip, seen_keys, <<>>)
    ELSE RowOutcome(FALSE, FALSE, is_flip, seen_keys \cup {key}, <<row>>)

\* the loop body from infer_form_and_route on
RowInferred(brand, generic, dosage_form, dosage_strength, regno, fr, is_flip, seen_keys) ==
    RowKeyed(DedupKey(brand, generic, fr, dosage_strength),
             OutputRow(brand, generic, dosage_form, fr, dosage_strength, regno),
             is_flip, seen_keys)

\* the loop body after the three remaining fields were read
RowStripped(brand, generic, dosage_form, dosage_strength, regno, is_flip, seen_keys,
            form_words) ==
    IF dosage_form.raised \/ dosage_strength.raised \/ regno.raised
    THEN RowOutcome(TRUE, FALSE, is_flip, seen_keys, <<>>)
    ELSE RowInferred(brand, generic, dosage_form.value, dosage_strength.value, regno.value,
                     infer_form_and_route(Str(dosage_form.value), form_words),
                     is_flip, seen_keys)

\* the loop body with the swap left out
RowNeverSwapped(r, brand0, generic0, is_flip, seen_keys, form_words) ==
    RowStripped(brand0, generic0,
                GetStripped(r, r.dosage_form), GetStripped(r, r.dosage_strength),
                GetStripped(r, r.registration_number), is_flip, seen_keys, form_words)

\* the loop body from the swap on, for the stripped brand and generic and the
\* verdict of the flip detector
RowAfterDetection(r, brand0, generic0, is_flip, seen_keys, form_words) ==
    RowStripped(IF is_flip THEN generic0 ELSE brand0,
                IF is_flip THEN brand0 ELSE generic0,
                GetStripped(r, r.dosage_form), GetStripped(r, r.dosage_strength),
                GetStripped(r, r.registration_number), is_flip, seen_keys, form_words)

\* the loop body after brand and generic were read
RowNamed(r, brand, generic, seen_keys, generics, local_automaton, form_words) ==
    IF brand.raised \/ generic.raised
    THEN RowOutcome(TRUE, FALSE, FALSE, seen_keys, <<>>)
    ELSE IF brand.value = <<>> \/ generic.value = <<>>
         THEN RowOutcome(FALSE, TRUE, FALSE, seen_keys, <<>>)
         ELSE RowAfterDetection(r, brand.value, generic.value,
                  _detect_brand_generic_flip(Str(brand.value), Str(generic.value),
                                             generics, local_automaton).value,
                  seen_keys, form_words)

\* the body of the loop of build_brand_map for one row
BuildBrandMapRow(r, seen_keys, generics, local_automaton, form_words) ==
    RowNamed(r, GetStripped(r, r.brand_name), GetStripped(r, r.generic_name),
             seen_keys, generics, local_automaton, form_words)

\* whether the loop body reaches the call of the flip detector
ReachesDetection(r) ==
    /\ ~GetStripped(r, r.brand_name).raised
    /\ ~GetStripped(r, r.generic_name).raised
    /\ GetStripped(r, r.brand_name).value # <<>>
    /\ GetStripped(r, r.generic_name).value # <<>>

MaxRows == 2

Capsule == <<T("capsule")>>
Tablet == <<T("tablet")>>
Strength500 == <<L("500"), L("mg")>>

SampleRows ==
    {Row(Str(Amoxil), Str(Amoxicillin), Str(Capsule), Str(Strength500), Str(<<L("r1")>>)),
     Row(Str(<<SP>> \o upper(Amoxil)), Str(Amoxicillin), Str(lower(Capsule) \o <<SP>>),
         Str(upper(Strength500)), Str(<<L("r2")>>)),
     Row(Str(Amlodipine), Str(Norvasc), Str(Tablet), Str(<<L("5")>>), Str(<<L("r3")>>)),
     Row(Str(Norvasc), Str(Amlodipine), Str(Tablet), Str(<<L("5")>>), Str(<<L("r4")>>)),
     Row(Str(<<T("biogesic")>>), Str(Paracetamol), Str(<<T("foo")>>), Str(Strength500),
         Str(<<L("r5")>>)),
     Row(Str(<<T("biogesic")>>), Str(Paracetamol), Str(<<T("bar")>>), Str(Strength500),
         Str(<<L("r5")>>)),
     Row(Str(<<T("biogesic")>>), Str(Paracetamol), Str(<<T("tablet"), SP, T("bottle")>>),
         PyNone, PyNone),
     Row(PyNone, Str(Paracetamol), Str(Tablet), Str(Strength500), Str(<<L("r8")>>)),
     Row(PyInt(5), Str(Paracetamol), Str(Tablet), Str(Strength500), Str(<<L("r9")>>)),
     NotADict}

InitMap ==
    /\ rows \in SeqsUpTo(SampleRows, MaxRows)
    /\ map_pc = "start"
    /\ row_idx = 0
    /\ seen = {}
    /\ out = <<>>
    /\ flip_count = 0
    /\ drugbank_generics = NoneObj
    /\ map_automaton = NoneObj
    /\ result = <<>>
    /\ ProcInit /\ IdleNormalize /\ IdleSplit /\ IdleFlip /\ IdleWorkers
    /\ IdleForms /\ IdleVaccine /\ IdleRun

\* build_brand_map up to the loop: the empty collections, the vocabulary and
\* the automaton
BuildBrandMapStart ==
    /\ map_pc = "start"
    /\ \E ld \in {_load_drugbank_data(_DRUGBANK_GENERICS_CACHE, _DRUGBANK_SYNONYMS_CACHE,
                                      reference, loads)} :
       \E au \in {_build_aho_automaton(ld.generics, _DRUGBANK_AUTOMATON_CACHE,
                                       aho_available, automaton_attempts,
                                       automaton_builds)} :
          /\ _DRUGBANK_GENERICS_CACHE' = ld.cache_g
          /\ _DRUGBANK_SYNONYMS_CACHE' = ld.cache_s
          /\ loads' = ld.loads
          /\ _DRUGBANK_AUTOMATON_CACHE' = au.cache_a
          /\ automaton_attempts' = au.attempts
          /\ automaton_builds' = au.builds
          /\ drugbank_generics' = ld.generics
          /\ map_automaton' = au.automaton
    /\ seen' = {}
    /\ out' = <<>>
    /\ flip_count' = 0
    /\ row_idx' = 1
    /\ map_pc' = "loop"
    /\ UNCHANGED <<rows, result, reference, aho_available, FORM_WORDS,
                   normVars, splitVars, flipVars, workerVars, tableVars>>

\* the automaton the flip detector ends up with when called with the local one
DetectorAutomaton(r, generics, local_automaton, cache_a, available, attempts, builds) ==
    IF ReachesDetection(r) /\ IsNone(local_automaton)
    THEN _build_aho_automaton(generics, cache_a, available, attempts, builds)
    ELSE [automaton |-> local_automaton, cache_a |-> cache_a, attempts |-> attempts,
          builds |-> builds]

\* one iteration of the loop: the row is skipped, emitted, or the exception it
\* raises leaves build_brand_map
BuildBrandMapIterate ==
    /\ map_pc = "loop"
    /\ row_idx <= Len(rows)
    /\ \E o \in {BuildBrandMapRow(rows[row_idx], seen, drugbank_generics.val,
                                  map_automaton, FORM_WORDS)} :
       \E au \in {DetectorAutomaton(rows[row_idx], drugbank_generics, map_automaton,
                                    _DRUGBANK_AUTOMATON_CACHE, aho_available,
                                    automaton_attempts, automaton_builds)} :
          /\ _DRUGBANK_AUTOMATON_CACHE' = au.cache_a
          /\ automaton_attempts' = au.attempts
          /\ automaton_builds' = au.builds
          /\ seen' = o.seen
          /\ out' = out \o o.emitted
          /\ flip_count' = IF o.flipped THEN flip_count + 1 ELSE flip_count
          /\ IF o.raised
             THEN map_pc' = "raised" /\ row_idx' = row_idx
             ELSE map_pc' = "loop" /\ row_idx' = row_idx + 1
    /\ UNCHANGED <<rows, drugbank_generics, map_automaton, result, reference, aho_available,
                   FORM_WORDS, _DRUGBANK_GENERICS_CACHE, _DRUGBANK_SYNONYMS_CACHE, loads,
                   normVars, splitVars, flipVars, workerVars, tableVars>>

\* the end of the loop: return out
BuildBrandMapReturn ==
    /\ map_pc = "loop"
    /\ row_idx > Len(rows)
    /\ result' = out
    /\ map_pc' = "done"
    /\ UNCHANGED <<rows, row_idx, seen, out, flip_count, drugbank_generics, map_automaton,
                   procVars, normVars, splitVars, flipVars, workerVars, tableVars>>

\* the dict build_brand_map emitted, as a row handed to build_brand_map
RowOfOutput(e) ==
    Row(Str(e.brand_name), Str(e.generic_name), Str(e.dosage_form), Str(e.dosage_strength),
        Str(e.registration_number))

\* build_brand_map(build_brand_map(rows)): the list returned is handed to a
\* second call in the same process
BuildBrandMapAgain ==
    /\ map_pc = "done"
    /\ run_pc = "idle"
    /\ run_pc' = "again"
    /\ run_locals' = [rows |-> rows, first |-> result, flips |-> flip_count]
    /\ rows' = [i \in 1..Len(result) |-> RowOfOutput(result[i])]
    /\ map_pc' = "start"
    /\ row_idx' = 0
    /\ seen' = {}
    /\ out' = <<>>
    /\ flip_count' = 0
    /\ UNCHANGED <<result, drugbank_generics, map_automaton, procVars, normVars, splitVars,
                   flipVars, workerVars, formVars, vaccineVars, run_args, run_files,
                   run_result>>

NextMap ==
    \/ BuildBrandMapStart \/ BuildBrandMapIterate \/ BuildBrandMapReturn
    \/ BuildBrandMapAgain

SpecMap == InitMap /\ [][NextMap]_vars

\* the tuple the output is said to be de-duplicated by, compared without case
EmittedTuple(e) ==
    <<lower(e.brand_name), lower(e.generic_name), lower(e.dosage_form), lower(e.route),
      lower(e.dosage_strength)>>

\* what build_brand_map emits for row i taken alone
EmittedAlone(i) ==
    BuildBrandMapRow(rows[i], {}, drugbank_generics.val, map_automaton, FORM_WORDS).emitted

\* C2: the returned rows are de-duplicated by their emitted tuple: no two of
\* them share it, the tuple of every input row that normalizes to a row is
\* among them, and the row kept for a tuple is the first of the input with it
DedupByEmittedTuple ==
    map_pc = "done" =>
        /\ \A i, j \in 1..Len(result) :
              i # j => EmittedTuple(result[i]) # EmittedTuple(result[j])
        /\ \A i \in 1..Len(rows) :
              EmittedAlone(i) # <<>> =>
                 \E j \in 1..Len(result) :
                    /\ EmittedTuple(result[j]) = EmittedTuple(EmittedAlone(i)[1])
                    /\ \E k \in 1..i : EmittedAlone(k) = <<result[j]>>

\* C6: build_brand_map never leaves its loop by an exception
BatchNeverAborts == map_pc # "raised"

\* C9: an iteration that reaches the flip detector uses the names swapped
\* exactly when the detector says flip: in the row it emits, in the key it
\* adds to seen, and it counts the flip
SwapExactlyOnFlip ==
    [][(/\ map_pc = "loop" /\ row_idx <= Len(rows)
        /\ map_pc' = "loop"
        /\ ReachesDetection(rows[row_idx]))
       => \E b \in {GetStripped(rows[row_idx], rows[row_idx].brand_name).value} :
          \E g \in {GetStripped(rows[row_idx], rows[row_idx].generic_name).value} :
          \E is_flip \in {_detect_brand_generic_flip(Str(b), Str(g), drugbank_generics.val,
                                                     map_automaton).value} :
             /\ Len(out') > Len(out) =>
                   /\ out'[Len(out')].brand_name = (IF is_flip THEN g ELSE b)
                   /\ out'[Len(out')].generic_name = (IF is_flip THEN b ELSE g)
             /\ \E key \in seen' :
                   /\ key[1] = lower(IF is_flip THEN g ELSE b)
                   /\ key[2] = lower(IF is_flip THEN b ELSE g)
             /\ \A key \in seen' \ seen :
                   /\ key[1] = lower(IF is_flip THEN g ELSE b)
                   /\ key[2] = lower(IF is_flip THEN b ELSE g)
             /\ flip_count' = flip_count + (IF is_flip THEN 1 ELSE 0)]_vars

\* C9 witness: Amlodipine/Norvasc was emitted as Norvasc/Amlodipine, and the
\* later row Norvasc/Amlodipine fell on the key of the swapped one
SwappedRowReturned ==
    /\ map_pc = "done"
    /\ Len(rows) = 2
    /\ rows[1].brand_name = Str(Amlodipine) /\ rows[1].generic_name = Str(Norvasc)
    /\ rows[2].brand_name = Str(Norvasc) /\ rows[2].generic_name = Str(Amlodipine)
    /\ flip_count = 1
    /\ Len(result) = 1
    /\ result[1].brand_name = Norvasc /\ result[1].generic_name = Amlodipine

\* C10: a returned row with a recognized dosage form carries the form and its
\* route in upper case
RecognizedFormUpperCase ==
    \A j \in 1..Len(out) :
        lower(out[j].dosage_form) \in DOMAIN FORM_TO_ROUTE =>
            /\ out[j].dosage_form = upper(out[j].dosage_form)
            /\ out[j].route = upper(FORM_TO_ROUTE[lower(out[j].dosage_form)])

\* no path of the reference data is a file that yields a row
NoUsableReference ==
    \A i \in 1..Len(reference) : ~reference[i].is_file \/ reference[i].error_at = 1

\* the names found in the rows of the reference files
ReferenceNames ==
    UNION {{upper(FieldStripped(reference[i].rows[k].canonical_generic_name)),
            upper(FieldStripped(reference[i].rows[k].lexeme))} :
           <<i, k>> \in {ik \in (1..Len(reference)) \X (1..Len(FullRows)) :
                            ik[2] <= Len(reference[ik[1]].rows)}}

\* C11: build_brand_map gets a vocabulary from the loader whatever the state
\* of the reference data, made of names of the reference rows only; when no
\* path is a readable file the vocabulary and the synonyms are empty, the flip
\* detector returns False for every pair of names, and no row is counted or
\* emitted as swapped
EmptyVocabularyIsNoOp ==
    map_pc \in {"loop", "done", "raised"} =>
        /\ loads = 1
        /\ ~IsNone(_DRUGBANK_GENERICS_CACHE) /\ ~IsNone(_DRUGBANK_SYNONYMS_CACHE)
        /\ drugbank_generics.val \subseteq ReferenceNames
        /\ NoUsableReference =>
              /\ drugbank_generics.val = {}
              /\ _DRUGBANK_SYNONYMS_CACHE.val = EmptyDict
              /\ row_idx = 1 =>
                    \A b, g \in {Str(s) : s \in FlipNames} \cup {PyNone} :
                       _detect_brand_generic_flip(b, g, drugbank_generics.val,
                                                  map_automaton) = Ret(FALSE)
              /\ flip_count = 0
              /\ \A j \in 1..Len(out) :
                    \E k \in 1..Len(rows) :
                       /\ rows[k].is_dict
                       /\ out[j].brand_name = FieldStripped(rows[k].brand_name)
                       /\ out[j].generic_name = FieldStripped(rows[k].generic_name)

\* C11 witness: the reference file could not be read, and Amlodipine/Norvasc,
\* a flip under the full vocabulary, was returned as it came
UnswappedWithoutReference ==
    /\ map_pc = "done"
    /\ reference = UnreadableReference
    /\ drugbank_generics.val = {}
    /\ Len(rows) = 1
    /\ rows[1].brand_name = Str(Amlodipine) /\ rows[1].generic_name = Str(Norvasc)
    /\ flip_count = 0
    /\ Len(result) = 1
    /\ result[1].brand_name = Amlodipine /\ result[1].generic_name = Norvasc

\* C12: the first access, at the start of build_brand_map, constructs the
\* vocabulary and the matcher once; the calls of the flip detector that follow
\* neither read the reference data again, nor attempt a construction, nor
\* change a cache
ConstructedOnFirstAccessOnly ==
    /\ [](map_pc # "start" => loads = 1 /\ automaton_attempts = 1)
    /\ [][map_pc = "loop" =>
             UNCHANGED <<_DRUGBANK_GENERICS_CACHE, _DRUGBANK_SYNONYMS_CACHE,
                         _DRUGBANK_AUTOMATON_CACHE, loads, automaton_attempts,
                         automaton_builds>>]_vars

----------------------------------------------------------------------------
(* Concurrent workers, each calling _load_drugbank_generics() and then     *)
(* _build_aho_automaton(generics); a step is one read or write of a        *)
(* module-level cache, or the construction between them                    *)

NumWorkers == 2

Workers == 1..NumWorkers

NoLocals == [generics |-> NoneObj, synonyms |-> NoneObj, automaton |-> NoneObj]

InitWorkers ==
    /\ wpc = [w \in Workers |-> "call"]
    /\ wlocal = [w \in Workers |-> NoLocals]
    /\ ProcInit /\ IdleNormalize /\ IdleSplit /\ IdleFlip /\ IdleMap
    /\ IdleForms /\ IdleVaccine /\ IdleRun

WorkerUnchanged ==
    <<reference, aho_available, FORM_WORDS, normVars, splitVars, flipVars, mapVars, tableVars>>

\* _load_drugbank_data, line 211: both caches set -> return them
LoadCheck(w) ==
    /\ wpc[w] = "call"
    /\ IF ~IsNone(_DRUGBANK_GENERICS_CACHE) /\ ~IsNone(_DRUGBANK_SYNONYMS_CACHE)
       THEN /\ wlocal' = [wlocal EXCEPT ![w].generics = _DRUGBANK_GENERICS_CACHE,
                                        ![w].synonyms = _DRUGBANK_SYNONYMS_CACHE]
            /\ wpc' = [wpc EXCEPT ![w] = "aho_check"]
       ELSE /\ wpc' = [wpc EXCEPT ![w] = "load_read"]
            /\ UNCHANGED wlocal
    /\ UNCHANGED <<_DRUGBANK_GENERICS_CACHE, _DRUGBANK_SYNONYMS_CACHE,
                   _DRUGBANK_AUTOMATON_CACHE, loads, automaton_attempts, automaton_builds,
                   WorkerUnchanged>>

\* _load_drugbank_data, lines 214-263: the local generics and synonyms are built
LoadRead(w) ==
    /\ wpc[w] = "load_read"
    /\ \E built \in {ConstructFromReference(reference)} :
         wlocal' = [wlocal EXCEPT ![w].generics = Obj(loads + 1, built.generics),
                                  ![w].synonyms = Obj(loads + 1, built.synonyms)]
    /\ loads' = loads + 1
    /\ wpc' = [wpc EXCEPT ![w] = "assign_generics"]
    /\ UNCHANGED <<_DRUGBANK_GENERICS_CACHE, _DRUGBANK_SYNONYMS_CACHE,
                   _DRUGBANK_AUTOMATON_CACHE, automaton_attempts, automaton_builds,
                   WorkerUnchanged>>

\* line 265
AssignGenerics(w) ==
    /\ wpc[w] = "assign_generics"
    /\ _DRUGBANK_GENERICS_CACHE' = wlocal[w].generics
    /\ wpc' = [wpc EXCEPT ![w] = "assign_synonyms"]
    /\ UNCHANGED <<wlocal, _DRUGBANK_SYNONYMS_CACHE, _DRUGBANK_AUTOMATON_CACHE, loads,
                   automaton_attempts, automaton_builds, WorkerUnchanged>>

\* line 266, and the return
AssignSynonyms(w) ==
    /\ wpc[w] = "assign_synonyms"
    /\ _DRUGBANK_SYNONYMS_CACHE' = wlocal[w].synonyms
    /\ wpc' = [wpc EXCEPT ![w] = "aho_check"]
    /\ UNCHANGED <<wlocal, _DRUGBANK_GENERICS_CACHE, _DRUGBANK_AUTOMATON_CACHE, loads,
                   automaton_attempts, automaton_builds, WorkerUnchanged>>

\* _build_aho_automaton, line 285, and the import
AhoCheck(w) ==
    /\ wpc[w] = "aho_check"
    /\ IF ~IsNone(_DRUGBANK_AUTOMATON_CACHE)
       THEN /\ wlocal' = [wlocal EXCEPT ![w].automaton = _DRUGBANK_AUTOMATON_CACHE]
            /\ wpc' = [wpc EXCEPT ![w] = "done"]
            /\ UNCHANGED automaton_attempts
       ELSE /\ automaton_attempts' = automaton_attempts + 1
            /\ wpc' = [wpc EXCEPT ![w] = IF aho_available THEN "aho_build" ELSE "done"]
            /\ UNCHANGED wlocal
    /\ UNCHANGED <<_DRUGBANK_GENERICS_CACHE, _DRUGBANK_SYNONYMS_CACHE,
                   _DRUGBANK_AUTOMATON_CACHE, loads, automaton_builds, WorkerUnchanged>>

\* lines 290-294
AhoBuild(w) ==
    /\ wpc[w] = "aho_build"
    /\ wlocal' = [wlocal EXCEPT ![w].automaton =
                      Obj(automaton_builds + 1, AutomatonWords(wlocal[w].generics.val))]
    /\ automaton_builds' = automaton_builds + 1
    /\ wpc' = [wpc EXCEPT ![w] = "aho_assign"]
    /\ UNCHANGED <<_DRUGBANK_GENERICS_CACHE, _DRUGBANK_SYNONYMS_CACHE,
                   _DRUGBANK_AUTOMATON_CACHE, loads, automaton_attempts, WorkerUnchanged>>

\* line 295, and the return
AhoAssign(w) ==
    /\ wpc[w] = "aho_assign"
    /\ _DRUGBANK_AUTOMATON_CACHE' = wlocal[w].automaton
    /\ wpc' = [wpc EXCEPT ![w] = "done"]
    /\ UNCHANGED <<wlocal, _DRUGBANK_GENERICS_CACHE, _DRUGBANK_SYNONYMS_CACHE, loads,
                   automaton_attempts, automaton_builds, WorkerUnchanged>>

NextWorkers ==
    \E w \in Workers :
        \/ LoadCheck(w)
        \/ LoadRead(w)
        \/ AssignGenerics(w)
        \/ AssignSynonyms(w)
        \/ AhoCheck(w)
        \/ AhoBuild(w)
        \/ AhoAssign(w)

SpecWorkers == InitWorkers /\ [][NextWorkers]_vars

\* C3: the vocabulary and the automaton are built once, and a worker that
\* has returned holds the objects that are in the caches
InitializedOnce ==
    /\ loads <= 1
    /\ automaton_builds <= 1
    /\ \A w \in Workers :
          wpc[w] = "done" =>
             /\ wlocal[w].generics.id = _DRUGBANK_GENERICS_CACHE.id
             /\ wlocal[w].synonyms.id = _DRUGBANK_SYNONYMS_CACHE.id
             /\ wlocal[w].automaton.id = _DRUGBANK_AUTOMATON_CACHE.id

----------------------------------------------------------------------------
(* The form helpers of unified_constants applied to form strings:          *)
(* get_canonical_form once and then to its own result, the two route       *)
(* lookups one after the other, forms_are_equivalent in both directions    *)

\* every string of the form tables
FormTableStrings ==
    DOMAIN FORM_CANON \cup {FORM_CANON[k] : k \in DOMAIN FORM_CANON}
        \cup DOMAIN FORM_TO_ROUTES \cup DOMAIN UNIFIED_FORM_TO_ROUTE
        \cup DOMAIN FORM_EQUIVALENTS

\* strings outside the tables: the empty string, an unknown form, and a form
\* in Title case
OtherForms == {<<>>, <<T("lozenge"), SP, L("x")>>, <<T("caplet")>>}

FormInputs == FormTableStrings \cup {lower(f) : f \in FormTableStrings} \cup OtherForms

\* the forms compared with each other: the members of the groups, the
\* canonical forms, and the strings outside the tables
PairForms ==
    DOMAIN FORM_EQUIVALENTS \cup {FORM_CANON[k] : k \in DOMAIN FORM_CANON} \cup OtherForms

NoFormResult ==
    [canonical |-> <<>>, again |-> <<>>, primary |-> Ret(PyNone), valid |-> <<>>,
     equivalent |-> FALSE, swapped |-> FALSE]

InitForms ==
    /\ form_a \in FormInputs
    /\ form_b \in (IF form_a \in PairForms THEN PairForms ELSE {form_a})
    /\ form_pc = "start"
    /\ form_out = NoFormResult
    /\ ProcTextOnly /\ IdleNormalize /\ IdleSplit /\ IdleFlip /\ IdleMap /\ IdleWorkers
    /\ IdleVaccine /\ IdleRun

FormsUnchanged ==
    <<form_a, form_b, vaccineVars, runVars, normVars, splitVars, flipVars, procVars,
      mapVars, workerVars>>

\* get_canonical_form(form)
Canonicalize ==
    /\ form_pc = "start"
    /\ form_out' = [form_out EXCEPT !.canonical = get_canonical_form(form_a)]
    /\ form_pc' = "canonical"
    /\ UNCHANGED FormsUnchanged

\* get_canonical_form applied to what it returned
Recanonicalize ==
    /\ form_pc = "canonical"
    /\ form_out' = [form_out EXCEPT !.again = get_canonical_form(form_out.canonical)]
    /\ form_pc' = "canonical_twice"
    /\ UNCHANGED FormsUnchanged

\* infer_route_from_form(form)
InferRoute ==
    /\ form_pc = "start"
    /\ form_out' = [form_out EXCEPT !.primary = infer_route_from_form(form_a)]
    /\ form_pc' = "primary"
    /\ UNCHANGED FormsUnchanged

\* get_valid_routes_for_form(form) for the same form
ValidRoutes ==
    /\ form_pc = "primary"
    /\ form_out' = [form_out EXCEPT !.valid = get_valid_routes_for_form(form_a)]
    /\ form_pc' = "routes"
    /\ UNCHANGED FormsUnchanged

\* forms_are_equivalent(a, b)
Equivalent ==
    /\ form_pc = "start"
    /\ form_out' = [form_out EXCEPT !.equivalent = forms_are_equivalent(form_a, form_b)]
    /\ form_pc' = "equivalent"
    /\ UNCHANGED FormsUnchanged

\* forms_are_equivalent(b, a)
EquivalentSwapped ==
    /\ form_pc = "equivalent"
    /\ form_out' = [form_out EXCEPT !.swapped = forms_are_equivalent(form_b, form_a)]
    /\ form_pc' = "equivalent_both"
    /\ UNCHANGED FormsUnchanged

NextForms ==
    \/ Canonicalize \/ Recanonicalize
    \/ InferRoute \/ ValidRoutes
    \/ Equivalent \/ EquivalentSwapped

SpecForms == InitForms /\ [][NextForms]_vars

\* C17: forms_are_equivalent gives the same answer in both directions, and
\* True for a form and itself
EquivalenceReflexiveSymmetric ==
    /\ form_pc = "equivalent_both" => form_out.swapped = form_out.equivalent
    /\ (form_pc \in {"equivalent", "equivalent_both"} /\ form_a = form_b)
          => form_out.equivalent

\* C17 witness: CAPLET, whose canonical form is the group member CAPSULE, was
\* found equivalent to TABLET in both directions
CapletTabletEquivalent ==
    /\ form_pc = "equivalent_both"
    /\ form_a = Phrase(<<"caplet">>) /\ form_b = Phrase(<<"tablet">>)
    /\ get_canonical_form(form_a) # form_a
    /\ form_out.equivalent /\ form_out.swapped

\* C18: infer_route_from_form returns without raising; a route it returns is
\* the first element of get_valid_routes_for_form for the same form, and it
\* returns None exactly when that list is empty
PrimaryRouteIsFirstValidRoute ==
    form_pc = "routes" =>
        /\ ~form_out.primary.raised
        /\ (form_out.primary.value = PyNone) <=> (form_out.valid = <<>>)
        /\ form_out.primary.value # PyNone =>
              /\ form_out.valid # <<>>
              /\ form_out.primary.value = Str(form_out.valid[1])

\* C18 witness: POWDER, whose first route of FORM_TO_ROUTES differs from its
\* route in the single-route table, got the first route of the list
PowderRouteFromList ==
    /\ form_pc = "routes"
    /\ form_a = lower(Phrase(<<"powder">>))
    /\ DictGet(UNIFIED_FORM_TO_ROUTE, upper(form_a)) # Str(FORM_TO_ROUTES[upper(form_a)][1])
    /\ Len(form_out.valid) > 1
    /\ form_out.primary = Ret(Str(form_out.valid[1]))

\* C19: get_canonical_form applied to its own result returns that result
CanonicalFormIdempotent ==
    form_pc = "canonical_twice" => form_out.again = form_out.canonical

\* C19 witness: 'Caplet' became CAPSULE, and CAPSULE stayed CAPSULE
CapletCanonicalTwice ==
    /\ form_pc = "canonical_twice"
    /\ form_a = <<T("caplet")>>
    /\ form_out.canonical = Phrase(<<"capsule">>)
    /\ form_out.canonical # upper(form_a)
    /\ form_out.again = form_out.canonical

----------------------------------------------------------------------------
(* Vaccine acronyms (unified_constants.py): the table, the reverse table    *)
(* built from it at import, and the two lookups.  An acronym is written one *)
(* character per chunk, so that Len is len(); a component one word per      *)
(* chunk.                                                                   *)

\* the items of VACCINE_ACRONYM_TO_COMPONENTS in the order of the dict
VACCINE_ACRONYM_TO_COMPONENTS_ITEMS ==
    <<<<<<"b", "c", "g">>, <<<<"bacillus", " ", "calmette", "-", "guerin">>>>>>,
      <<<<"d">>, <<<<"diphtheria">>>>>>, <<<<"t">>, <<<<"tetanus">>>>>>,
      <<<<"p">>, <<<<"pertussis">>>>>>, <<<<"a", "p">>, <<<<"acellular", " ", "pertussis">>>>>>,
      <<<<"w", "p">>, <<<<"whole", "-", "cell", " ", "pertussis">>>>>>,
      <<<<"h", "i", "b">>, <<<<"haemophilus", " ", "influenzae", " ", "type", " ", "b">>>>>>,
      <<<<"h", "e", "p", "b">>, <<<<"hepatitis", " ", "b">>>>>>,
      <<<<"h", "e", "p", "a">>, <<<<"hepatitis", " ", "a">>>>>>,
      <<<<"i", "p", "v">>, <<<<"inactivated", " ", "polio">>, <<"inactivated", " ", "poliovirus">>, <<"inactivated", " ", "poliomyelitis">>>>>>,
      <<<<"o", "p", "v">>, <<<<"oral", " ", "polio">>, <<"oral", " ", "poliovirus">>, <<"live", " ", "attenuated", " ", "polio">>>>>>,
      <<<<"m", "v">>, <<<<"measles">>>>>>, <<<<"m", "r">>, <<<<"measles">>, <<"rubella">>>>>>,
      <<<<"m", "m", "r">>, <<<<"measles">>, <<"mumps">>, <<"rubella">>>>>>,
      <<<<"m", "m", "r", "v">>, <<<<"measles">>, <<"mumps">>, <<"rubella">>, <<"varicella">>>>>>,
      <<<<"v", "a", "r">>, <<<<"varicella">>>>>>,
      <<<<"v", "z", "v">>, <<<<"varicella">>, <<"varicella", "-", "zoster">>>>>>,
      <<<<"r", "v">>, <<<<"rotavirus">>>>>>,
      <<<<"p", "c", "v">>, <<<<"pneumococcal", " ", "conjugate">>>>>>,
      <<<<"p", "p", "s", "v">>, <<<<"pneumococcal", " ", "polysaccharide">>>>>>,
      <<<<"f", "l", "u">>, <<<<"influenza">>>>>>,
      <<<<"i", "i", "v">>, <<<<"inactivated", " ", "influenza">>>>>>,
      <<<<"l", "a", "i", "v">>, <<<<"live", " ", "attenuated", " ", "influenza">>>>>>,
      <<<<"h", "p", "v">>, <<<<"human", " ", "papillomavirus">>>>>>,
      <<<<"y", "f">>, <<<<"yellow", " ", "fever">>>>>>,
      <<<<"j", "e">>, <<<<"japanese", " ", "encephalitis">>>>>>,
      <<<<"r", "a", "b">>, <<<<"rabies">>>>>>, <<<<"t", "y", "p">>, <<<<"typhoid">>>>>>,
      <<<<"m", "e", "n">>, <<<<"meningococcal">>>>>>,
      <<<<"d", "t">>, <<<<"diphtheria">>, <<"tetanus">>>>>>,
      <<<<"t", "d">>, <<<<"tetanus">>, <<"diphtheria">>>>>>,
      <<<<"d", "p">>, <<<<"diphtheria">>, <<"pertussis">>>>>>,
      <<<<"t", "p">>, <<<<"tetanus">>, <<"pertussis">>>>>>,
      <<<<"d", "t", "p">>, <<<<"diphtheria">>, <<"tetanus">>, <<"pertussis">>>>>>,
      <<<<"d", "t", "a", "p">>, <<<<"diphtheria">>, <<"tetanus">>, <<"acellular", " ", "pertussis">>>>>>,
      <<<<"d", "t", "w", "p">>, <<<<"diphtheria">>, <<"tetanus">>, <<"whole", "-", "cell", " ", "pertussis">>>>>>,
      <<<<"t", "d", "a", "p">>, <<<<"tetanus">>, <<"diphtheria">>, <<"acellular", " ", "pertussis">>>>>>,
      <<<<"d", "t", "p", "-", "h", "i", "b">>, <<<<"diphtheria">>, <<"tetanus">>, <<"pertussis">>, <<"haemophilus", " ", "influenzae", " ", "type", " ", "b">>>>>>,
      <<<<"d", "t", "p", "-", "h", "e", "p", "b">>, <<<<"diphtheria">>, <<"tetanus">>, <<"pertussis">>, <<"hepatitis", " ", "b">>>>>>,
      <<<<"d", "t", "p", "-", "i", "p", "v">>, <<<<"diphtheria">>, <<"tetanus">>, <<"pertussis">>, <<"inactivated", " ", "polio">>>>>>,
      <<<<"d", "t", "a", "p", "-", "h", "i", "b">>, <<<<"diphtheria">>, <<"tetanus">>, <<"acellular", " ", "pertussis">>, <<"haemophilus", " ", "influenzae", " ", "type", " ", "b">>>>>>,
      <<<<"d", "t", "a", "p", "-", "h", "e", "p", "b">>, <<<<"diphtheria">>, <<"tetanus">>, <<"acellular", " ", "pertussis">>, <<"hepatitis", " ", "b">>>>>>,
      <<<<"d", "t", "a", "p", "-", "i", "p", "v">>, <<<<"diphtheria">>, <<"tetanus">>, <<"acellular", " ", "pertussis">>, <<"inactivated", " ", "polio">>>>>>,
      <<<<"p", "e", "n", "t", "a">>, <<<<"diphtheria">>, <<"tetanus">>, <<"pertussis">>, <<"hepatitis", " ", "b">>, <<"haemophilus", " ", "influenzae", " ", "type", " ", "b">>>>>>,
      <<<<"d", "t", "p", "-", "h", "e", "p", "b", "-", "h", "i", "b">>, <<<<"diphtheria">>, <<"tetanus">>, <<"pertussis">>, <<"hepatitis", " ", "b">>, <<"haemophilus", " ", "influenzae", " ", "type", " ", "b">>>>>>,
      <<<<"d", "t", "p", "-", "i", "p", "v", "-", "h", "i", "b">>, <<<<"diphtheria">>, <<"tetanus">>, <<"pertussis">>, <<"inactivated", " ", "polio">>, <<"haemophilus", " ", "influenzae", " ", "type", " ", "b">>>>>>,
      <<<<"d", "t", "a", "p", "-", "h", "e", "p", "b", "-", "h", "i", "b">>, <<<<"diphtheria">>, <<"tetanus">>, <<"acellular", " ", "pertussis">>, <<"hepatitis", " ", "b">>, <<"haemophilus", " ", "influenzae", " ", "type", " ", "b">>>>>>,
      <<<<"d", "t", "a", "p", "-", "i", "p", "v", "-", "h", "i", "b">>, <<<<"diphtheria">>, <<"tetanus">>, <<"acellular", " ", "pertussis">>, <<"inactivated", " ", "polio">>, <<"haemophilus", " ", "influenzae", " ", "type", " ", "b">>>>>>,
      <<<<"h", "e", "x", "a">>, <<<<"diphtheria">>, <<"tetanus">>, <<"pertussis">>, <<"hepatitis", " ", "b">>, <<"haemophilus", " ", "influenzae", " ", "type", " ", "b">>, <<"inactivated", " ", "polio">>>>>>,
      <<<<"d", "t", "p", "-", "h", "e", "p", "b", "-", "h", "i", "b", "-", "i", "p", "v">>, <<<<"diphtheria">>, <<"tetanus">>, <<"pertussis">>, <<"hepatitis", " ", "b">>, <<"haemophilus", " ", "influenzae", " ", "type", " ", "b">>, <<"inactivated", " ", "polio">>>>>>,
      <<<<"d", "t", "a", "p", "-", "h", "e", "p", "b", "-", "h", "i", "b", "-", "i", "p", "v">>, <<<<"diphtheria">>, <<"tetanus">>, <<"acellular", " ", "pertussis">>, <<"hepatitis", " ", "b">>, <<"haemophilus", " ", "influenzae", " ", "type", " ", "b">>, <<"inactivated", " ", "polio">>>>>>,
      <<<<"h", "e", "p", "a", "-", "h", "e", "p", "b">>, <<<<"hepatitis", " ", "a">>, <<"hepatitis", " ", "b">>>>>>,
      <<<<"t", "w", "i", "n", "r", "i", "x">>, <<<<"hepatitis", " ", "a">>, <<"hepatitis", " ", "b">>>>>>,
      <<<<"m", "e", "n", "a", "c", "w", "y">>, <<<<"meningococcal", " ", "a">>, <<"meningococcal", " ", "c">>, <<"meningococcal", " ", "w">>, <<"meningococcal", " ", "y">>>>>>,
      <<<<"m", "e", "n", "b">>, <<<<"meningococcal", " ", "b">>>>>>,
      <<<<"m", "e", "n", "a", "b", "c", "w", "y">>, <<<<"meningococcal", " ", "a">>, <<"meningococcal", " ", "b">>, <<"meningococcal", " ", "c">>, <<"meningococcal", " ", "w">>, <<"meningococcal", " ", "y">>>>>>,
      <<<<"p", "c", "v", "7">>, <<<<"pneumococcal", " ", "conjugate", " ", "7", "-", "valent">>>>>>,
      <<<<"p", "c", "v", "1", "0">>, <<<<"pneumococcal", " ", "conjugate", " ", "10", "-", "valent">>>>>>,
      <<<<"p", "c", "v", "1", "3">>, <<<<"pneumococcal", " ", "conjugate", " ", "13", "-", "valent">>>>>>,
      <<<<"p", "c", "v", "1", "5">>, <<<<"pneumococcal", " ", "conjugate", " ", "15", "-", "valent">>>>>>,
      <<<<"p", "c", "v", "2", "0">>, <<<<"pneumococcal", " ", "conjugate", " ", "20", "-", "valent">>>>>>,
      <<<<"p", "p", "s", "v", "2", "3">>, <<<<"pneumococcal", " ", "polysaccharide", " ", "23", "-", "valent">>>>>>>>

VACCINE_ACRONYM_TO_COMPONENTS ==
    [i \in 1..Len(VACCINE_ACRONYM_TO_COMPONENTS_ITEMS) |->
        [acronym |-> Phrase(VACCINE_ACRONYM_TO_COMPONENTS_ITEMS[i][1]),
         components |-> Phrases(VACCINE_ACRONYM_TO_COMPONENTS_ITEMS[i][2])]]

\* the components of the table in the order str comparison puts them
VACCINE_COMPONENTS_SORTED ==
    <<<<"acellular", " ", "pertussis">>, <<"bacillus", " ", "calmette", "-", "guerin">>,
      <<"diphtheria">>, <<"haemophilus", " ", "influenzae", " ", "type", " ", "b">>,
      <<"hepatitis", " ", "a">>, <<"hepatitis", " ", "b">>, <<"human", " ", "papillomavirus">>,
      <<"inactivated", " ", "influenza">>, <<"inactivated", " ", "polio">>,
      <<"inactivated", " ", "poliomyelitis">>, <<"inactivated", " ", "poliovirus">>,
      <<"influenza">>, <<"japanese", " ", "encephalitis">>,
      <<"live", " ", "attenuated", " ", "influenza">>,
      <<"live", " ", "attenuated", " ", "polio">>, <<"measles">>, <<"meningococcal">>,
      <<"meningococcal", " ", "a">>, <<"meningococcal", " ", "b">>,
      <<"meningococcal", " ", "c">>, <<"meningococcal", " ", "w">>,
      <<"meningococcal", " ", "y">>, <<"mumps">>, <<"oral", " ", "polio">>,
      <<"oral", " ", "poliovirus">>, <<"pertussis">>, <<"pneumococcal">>,
      <<"pneumococcal", " ", "conjugate">>,
      <<"pneumococcal", " ", "conjugate", " ", "10", "-", "valent">>,
      <<"pneumococcal", " ", "conjugate", " ", "13", "-", "valent">>,
      <<"pneumococcal", " ", "conjugate", " ", "15", "-", "valent">>,
      <<"pneumococcal", " ", "conjugate", " ", "20", "-", "valent">>,
      <<"pneumococcal", " ", "conjugate", " ", "7", "-", "valent">>,
      <<"pneumococcal", " ", "polysaccharide">>,
      <<"pneumococcal", " ", "polysaccharide", " ", "23", "-", "valent">>, <<"polio">>,
      <<"rabies">>, <<"rotavirus">>, <<"rubella">>, <<"tetanus">>, <<"tuberculosis">>,
      <<"typhoid">>, <<"varicella">>, <<"varicella", "-", "zoster">>,
      <<"whole", "-", "cell", " ", "pertussis">>, <<"yellow", " ", "fever">>>>

\* the position str comparison gives a component of the table
StrRank(c) ==
    CHOOSE i \in 1..Len(VACCINE_COMPONENTS_SORTED) : Phrase(VACCINE_COMPONENTS_SORTED[i]) = c

\* sorted(list) of components: a stable insertion sort
RECURSIVE InsertSorted(_, _)
InsertSorted(c, sorted_list) ==
    IF sorted_list = <<>> THEN <<c>>
    ELSE IF StrRank(c) < StrRank(Head(sorted_list)) THEN <<c>> \o sorted_list
    ELSE <<Head(sorted_list)>> \o InsertSorted(c, Tail(sorted_list))

RECURSIVE sorted(_)
sorted(list) ==
    IF list = <<>> THEN <<>>
    ELSE InsertSorted(list[Len(list)], sorted(SubSeq(list, 1, Len(list) - 1)))

\* " + ".join(normalized)
RECURSIVE JoinPlus(_)
JoinPlus(normalized) ==
    IF normalized = <<>> THEN <<>>
    ELSE IF Len(normalized) = 1 THEN normalized[1]
    ELSE normalized[1] \o <<SP, L("+"), SP>> \o JoinPlus(Tail(normalized))

\* the key of item i: " + ".join(sorted([c.upper() for c in components]))
ReverseKey(i) ==
    JoinPlus(sorted([j \in 1..Len(VACCINE_ACRONYM_TO_COMPONENTS[i].components) |->
                        upper(VACCINE_ACRONYM_TO_COMPONENTS[i].components[j])]))

\* a test that lets a later acronym of the same length replace an earlier one
ReplacesNotLonger(reverse, key, acronym) ==
    key \notin DOMAIN reverse \/ Len(acronym) <= Len(reverse[key])

\* key not in result or len(acronym) < len(result[key])
ReplacesEntry(reverse, key, acronym) ==
    key \notin DOMAIN reverse \/ Len(acronym) < Len(reverse[key])

\* the loop of _build_components_to_acronym from item i on
RECURSIVE BuildReverseFrom(_, _)
BuildReverseFrom(i, reverse) ==
    IF i > Len(VACCINE_ACRONYM_TO_COMPONENTS) THEN reverse
    ELSE IF ReplacesEntry(reverse, ReverseKey(i), VACCINE_ACRONYM_TO_COMPONENTS[i].acronym)
    THEN BuildReverseFrom(i + 1,
            DictSet(reverse, ReverseKey(i), VACCINE_ACRONYM_TO_COMPONENTS[i].acronym))
    ELSE BuildReverseFrom(i + 1, reverse)

_build_components_to_acronym == BuildReverseFrom(1, <<>>)

VACCINE_COMPONENTS_TO_ACRONYM == _build_components_to_acronym

\* a list value
PyList(xs) == [t |-> "list", s |-> xs, n |-> 0]

\* str.endswith(suffix)
EndsWith(s, suffix) ==
    Len(suffix) <= Len(s) /\ SubSeq(s, Len(s) - Len(suffix) + 1, Len(s)) = suffix

\* the suffixes expand_vaccine_acronym removes, in its order
VaccineSuffixes ==
    <<<<SP>> \o Phrase(<<"v", "a", "c", "c", "i", "n", "e">>),
      <<L("-")>> \o Phrase(<<"v", "a", "c", "c", "i", "n", "e">>),
      Phrase(<<"v", "a", "c", "c", "i", "n", "e">>)>>

\* the suffix loop of expand_vaccine_acronym from suffix i on
RECURSIVE RemoveSuffixes(_, _)
RemoveSuffixes(acronym_upper, i) ==
    IF i > Len(VaccineSuffixes) THEN acronym_upper
    ELSE IF EndsWith(acronym_upper, VaccineSuffixes[i])
    THEN RemoveSuffixes(
            strip(Upto(acronym_upper, Len(acronym_upper) - Len(VaccineSuffixes[i]))), i + 1)
    ELSE RemoveSuffixes(acronym_upper, i + 1)

\* VACCINE_ACRONYM_TO_COMPONENTS.get(acronym_upper)
ComponentsOf(acronym_upper) ==
    IF \E i \in DOMAIN VACCINE_ACRONYM_TO_COMPONENTS :
          VACCINE_ACRONYM_TO_COMPONENTS[i].acronym = acronym_upper
    THEN PyList((CHOOSE e \in {VACCINE_ACRONYM_TO_COMPONENTS[i] :
                                  i \in DOMAIN VACCINE_ACRONYM_TO_COMPONENTS} :
                    e.acronym = acronym_upper).components)
    ELSE PyNone

\* expand_vaccine_acronym(acronym): the list of components, or None
expand_vaccine_acronym(acronym) == ComponentsOf(RemoveSuffixes(strip(upper(acronym)), 1))

\* get_vaccine_acronym(components): the acronym, or None
get_vaccine_acronym(components) ==
    IF components.t = "none" \/ components.s = <<>> THEN PyNone
    ELSE DictGet(VACCINE_COMPONENTS_TO_ACRONYM,
            JoinPlus(sorted([j \in 1..Len(components.s) |-> strip(upper(components.s[j]))])))

\* the acronyms of the table
VaccineAcronyms ==
    {VACCINE_ACRONYM_TO_COMPONENTS[i].acronym : i \in DOMAIN VACCINE_ACRONYM_TO_COMPONENTS}

\* the acronyms as they are written: as in the table, in lower case, between
\* blanks, with each of the suffixes; and strings that are no acronym
VaccineInputs ==
    VaccineAcronyms
        \cup {lower(a) : a \in VaccineAcronyms}
        \cup {<<SP>> \o a \o <<SP>> : a \in VaccineAcronyms}
        \cup {a \o VaccineSuffixes[i] : a \in VaccineAcronyms, i \in DOMAIN VaccineSuffixes}
        \cup {lower(a \o VaccineSuffixes[1]) : a \in VaccineAcronyms}
        \cup {<<>>, VaccineSuffixes[3], Phrase(<<"x", "y", "z">>)}

NoVaccineResult == [components |-> PyNone, acronym |-> PyNone]

InitVaccine ==
    /\ vaccine_arg \in VaccineInputs
    /\ vaccine_pc = "start"
    /\ vaccine_out = NoVaccineResult
    /\ ProcTextOnly /\ IdleNormalize /\ IdleSplit /\ IdleFlip /\ IdleMap /\ IdleWorkers
    /\ IdleForms /\ IdleRun

VaccineUnchanged ==
    <<vaccine_arg, formVars, runVars, normVars, splitVars, flipVars, procVars, mapVars,
      workerVars>>

\* expand_vaccine_acronym(acronym)
ExpandAcronym ==
    /\ vaccine_pc = "start"
    /\ vaccine_out' = [vaccine_out EXCEPT !.components = expand_vaccine_acronym(vaccine_arg)]
    /\ vaccine_pc' = "expanded"
    /\ UNCHANGED VaccineUnchanged

\* get_vaccine_acronym of the components returned
ComponentsAcronym ==
    /\ vaccine_pc = "expanded"
    /\ vaccine_out' = [vaccine_out EXCEPT !.acronym = get_vaccine_acronym(vaccine_out.components)]
    /\ vaccine_pc' = "acronym"
    /\ UNCHANGED VaccineUnchanged

NextVaccine == ExpandAcronym \/ ComponentsAcronym

SpecVaccine == InitVaccine /\ [][NextVaccine]_vars

\* the items of the table that have the components of item i, in any order
SameComponents(i) ==
    {j \in DOMAIN VACCINE_ACRONYM_TO_COMPONENTS :
        {VACCINE_ACRONYM_TO_COMPONENTS[j].components[n] :
            n \in DOMAIN VACCINE_ACRONYM_TO_COMPONENTS[j].components}
            = {VACCINE_ACRONYM_TO_COMPONENTS[i].components[n] :
                n \in DOMAIN VACCINE_ACRONYM_TO_COMPONENTS[i].components}}

\* the shortest acronym of those items, the first listed among equally short
ShortestFirstListed(i) ==
    VACCINE_ACRONYM_TO_COMPONENTS[
        CHOOSE j \in SameComponents(i) :
            \A k \in SameComponents(i) :
                \/ Len(VACCINE_ACRONYM_TO_COMPONENTS[j].acronym)
                      < Len(VACCINE_ACRONYM_TO_COMPONENTS[k].acronym)
                \/ /\ Len(VACCINE_ACRONYM_TO_COMPONENTS[j].acronym)
                        = Len(VACCINE_ACRONYM_TO_COMPONENTS[k].acronym)
                   /\ j <= k].acronym

\* C20: expanding an acronym of the table and taking the acronym of the
\* components returns the acronym itself, and when several acronyms have the
\* same components the shortest of them, the first listed among equally short
VaccineRoundTrip ==
    vaccine_pc = "acronym" =>
        \A i \in DOMAIN VACCINE_ACRONYM_TO_COMPONENTS :
            vaccine_arg = VACCINE_ACRONYM_TO_COMPONENTS[i].acronym =>
                /\ vaccine_out.acronym = Str(ShortestFirstListed(i))
                /\ SameComponents(i) = {i} => vaccine_out.acronym = Str(vaccine_arg)

\* C20 witness: TD, listed after DT with the same components in another
\* order, came back as DT
TdCameBackAsDt ==
    /\ vaccine_pc = "acronym"
    /\ vaccine_arg = Phrase(<<"t", "d">>)
    /\ vaccine_out.components.t = "list"
    /\ vaccine_out.components.s # sorted(vaccine_out.components.s)
    /\ vaccine_out.acronym = Str(Phrase(<<"d", "t">>))

----------------------------------------------------------------------------
(* match_vaccine_text (unified_constants.py): the search for an acronym    *)
(* standing as a word of the text, and the extraction of component         *)
(* keywords.  The text and the keywords are written one character per      *)
(* chunk, like the acronyms.                                               *)

\* the items of VACCINE_COMPONENT_KEYWORDS in the order of the dict: the
\* keyword and the component it stands for
VACCINE_COMPONENT_KEYWORDS_ITEMS ==
    <<<<<<"d", "i", "p", "h", "t", "h", "e", "r", "i", "a">>, <<"diphtheria">>>>,
      <<<<"d", "i", "p", "h", "t", "e", "r", "i", "a">>, <<"diphtheria">>>>,
      <<<<"c", "o", "r", "y", "n", "e", "b", "a", "c", "t", "e", "r", "i", "u", "m", " ", "d", "i", "p", "h", "t", "h", "e", "r", "i", "a", "e">>, <<"diphtheria">>>>,
      <<<<"t", "e", "t", "a", "n", "u", "s">>, <<"tetanus">>>>,
      <<<<"c", "l", "o", "s", "t", "r", "i", "d", "i", "u", "m", " ", "t", "e", "t", "a", "n", "i">>, <<"tetanus">>>>,
      <<<<"p", "e", "r", "t", "u", "s", "s", "i", "s">>, <<"pertussis">>>>,
      <<<<"w", "h", "o", "o", "p", "i", "n", "g", " ", "c", "o", "u", "g", "h">>, <<"pertussis">>>>,
      <<<<"b", "o", "r", "d", "e", "t", "e", "l", "l", "a", " ", "p", "e", "r", "t", "u", "s", "s", "i", "s">>, <<"pertussis">>>>,
      <<<<"a", "c", "e", "l", "l", "u", "l", "a", "r", " ", "p", "e", "r", "t", "u", "s", "s", "i", "s">>, <<"acellular", " ", "pertussis">>>>,
      <<<<"w", "h", "o", "l", "e", "-", "c", "e", "l", "l", " ", "p", "e", "r", "t", "u", "s", "s", "i", "s">>, <<"whole", "-", "cell", " ", "pertussis">>>>,
      <<<<"w", "h", "o", "l", "e", " ", "c", "e", "l", "l", " ", "p", "e", "r", "t", "u", "s", "s", "i", "s">>, <<"whole", "-", "cell", " ", "pertussis">>>>,
      <<<<"h", "a", "e", "m", "o", "p", "h", "i", "l", "u", "s", " ", "i", "n", "f", "l", "u", "e", "n", "z", "a", "e", " ", "t", "y", "p", "e", " ", "b">>, <<"haemophilus", " ", "influenzae", " ", "type", " ", "b">>>>,
      <<<<"h", "a", "e", "m", "o", "p", "h", "i", "l", "u", "s", " ", "i", "n", "f", "l", "u", "e", "n", "z", "a", "e", " ", "b">>, <<"haemophilus", " ", "influenzae", " ", "type", " ", "b">>>>,
      <<<<"h", ".", " ", "i", "n", "f", "l", "u", "e", "n", "z", "a", "e", " ", "t", "y", "p", "e", " ", "b">>, <<"haemophilus", " ", "influenzae", " ", "type", " ", "b">>>>,
      <<<<"h", "i", "b">>, <<"haemophilus", " ", "influenzae", " ", "type", " ", "b">>>>,
      <<<<"h", "e", "p", "a", "t", "i", "t", "i", "s", " ", "a">>, <<"hepatitis", " ", "a">>>>,
      <<<<"h", "e", "p", "a", "t", "i", "t", "i", "s", " ", "b">>, <<"hepatitis", " ", "b">>>>,
      <<<<"h", "e", "p", " ", "a">>, <<"hepatitis", " ", "a">>>>,
      <<<<"h", "e", "p", " ", "b">>, <<"hepatitis", " ", "b">>>>,
      <<<<"p", "o", "l", "i", "o">>, <<"polio">>>>,
      <<<<"p", "o", "l", "i", "o", "v", "i", "r", "u", "s">>, <<"polio">>>>,
      <<<<"p", "o", "l", "i", "o", "m", "y", "e", "l", "i", "t", "i", "s">>, <<"polio">>>>,
      <<<<"i", "n", "a", "c", "t", "i", "v", "a", "t", "e", "d", " ", "p", "o", "l", "i", "o">>, <<"inactivated", " ", "polio">>>>,
      <<<<"i", "n", "a", "c", "t", "i", "v", "a", "t", "e", "d", " ", "p", "o", "l", "i", "o", "v", "i", "r", "u", "s">>, <<"inactivated", " ", "polio">>>>,
      <<<<"i", "n", "a", "c", "t", "i", "v", "a", "t", "e", "d", " ", "p", "o", "l", "i", "o", "m", "y", "e", "l", "i", "t", "i", "s">>, <<"inactivated", " ", "polio">>>>,
      <<<<"o", "r", "a", "l", " ", "p", "o", "l", "i", "o">>, <<"oral", " ", "polio">>>>,
      <<<<"l", "i", "v", "e", " ", "a", "t", "t", "e", "n", "u", "a", "t", "e", "d", " ", "p", "o", "l", "i", "o">>, <<"oral", " ", "polio">>>>,
      <<<<"m", "e", "a", "s", "l", "e", "s">>, <<"measles">>>>,
      <<<<"r", "u", "b", "e", "o", "l", "a">>, <<"measles">>>>,
      <<<<"m", "u", "m", "p", "s">>, <<"mumps">>>>,
      <<<<"r", "u", "b", "e", "l", "l", "a">>, <<"rubella">>>>,
      <<<<"g", "e", "r", "m", "a", "n", " ", "m", "e", "a", "s", "l", "e", "s">>, <<"rubella">>>>,
      <<<<"v", "a", "r", "i", "c", "e", "l", "l", "a">>, <<"varicella">>>>,
      <<<<"c", "h", "i", "c", "k", "e", "n", "p", "o", "x">>, <<"varicella">>>>,
      <<<<"v", "a", "r", "i", "c", "e", "l", "l", "a", "-", "z", "o", "s", "t", "e", "r">>, <<"varicella">>>>,
      <<<<"v", "a", "r", "i", "c", "e", "l", "l", "a", " ", "z", "o", "s", "t", "e", "r">>, <<"varicella">>>>,
      <<<<"r", "o", "t", "a", "v", "i", "r", "u", "s">>, <<"rotavirus">>>>,
      <<<<"i", "n", "f", "l", "u", "e", "n", "z", "a">>, <<"influenza">>>>,
      <<<<"f", "l", "u">>, <<"influenza">>>>,
      <<<<"p", "n", "e", "u", "m", "o", "c", "o", "c", "c", "a", "l">>, <<"pneumococcal">>>>,
      <<<<"m", "e", "n", "i", "n", "g", "o", "c", "o", "c", "c", "a", "l">>, <<"meningococcal">>>>,
      <<<<"h", "u", "m", "a", "n", " ", "p", "a", "p", "i", "l", "l", "o", "m", "a", "v", "i", "r", "u", "s">>, <<"human", " ", "papillomavirus">>>>,
      <<<<"h", "p", "v">>, <<"human", " ", "papillomavirus">>>>,
      <<<<"y", "e", "l", "l", "o", "w", " ", "f", "e", "v", "e", "r">>, <<"yellow", " ", "fever">>>>,
      <<<<"j", "a", "p", "a", "n", "e", "s", "e", " ", "e", "n", "c", "e", "p", "h", "a", "l", "i", "t", "i", "s">>, <<"japanese", " ", "encephalitis">>>>,
      <<<<"r", "a", "b", "i", "e", "s">>, <<"rabies">>>>,
      <<<<"t", "y", "p", "h", "o", "i", "d">>, <<"typhoid">>>>,
      <<<<"t", "u", "b", "e", "r", "c", "u", "l", "o", "s", "i", "s">>, <<"tuberculosis">>>>,
      <<<<"b", "c", "g">>, <<"tuberculosis">>>>,
      <<<<"b", "a", "c", "i", "l", "l", "u", "s", " ", "c", "a", "l", "m", "e", "t", "t", "e", "-", "g", "u", "e", "r", "i", "n">>, <<"tuberculosis">>>>,
      <<<<"b", "a", "c", "i", "l", "l", "u", "s", " ", "c", "a", "l", "m", "e", "t", "t", "e", " ", "g", "u", "e", "r", "i", "n">>, <<"tuberculosis">>>>>>

VACCINE_COMPONENT_KEYWORDS ==
    [i \in 1..Len(VACCINE_COMPONENT_KEYWORDS_ITEMS) |->
        [keyword |-> Phrase(VACCINE_COMPONENT_KEYWORDS_ITEMS[i][1]),
         normalized |-> Phrase(VACCINE_COMPONENT_KEYWORDS_ITEMS[i][2])]]

\* the length of the longest acronym and of the longest keyword
LongestAcronym ==
    CHOOSE n \in {Len(VACCINE_ACRONYM_TO_COMPONENTS[i].acronym) :
                      i \in DOMAIN VACCINE_ACRONYM_TO_COMPONENTS} :
        \A i \in DOMAIN VACCINE_ACRONYM_TO_COMPONENTS :
            Len(VACCINE_ACRONYM_TO_COMPONENTS[i].acronym) <= n

LongestKeyword ==
    CHOOSE n \in {Len(VACCINE_COMPONENT_KEYWORDS[i].keyword) :
                      i \in DOMAIN VACCINE_COMPONENT_KEYWORDS} :
        \A i \in DOMAIN VACCINE_COMPONENT_KEYWORDS :
            Len(VACCINE_COMPONENT_KEYWORDS[i].keyword) <= n

\* sorted(..., key=len, reverse=True) and sorted(..., key=lambda x: -len(x[0])):
\* the items of length n and less, longest first, equally long ones in the
\* order of the list
RECURSIVE AcronymsOfLenDown(_)
AcronymsOfLenDown(n) ==
    IF n = 0 THEN <<>>
    ELSE SelectSeq(VACCINE_ACRONYM_TO_COMPONENTS, LAMBDA e : Len(e.acronym) = n)
            \o AcronymsOfLenDown(n - 1)

RECURSIVE KeywordsOfLenDown(_)
KeywordsOfLenDown(n) ==
    IF n = 0 THEN <<>>
    ELSE SelectSeq(VACCINE_COMPONENT_KEYWORDS, LAMBDA e : Len(e.keyword) = n)
            \o KeywordsOfLenDown(n - 1)

\* the acronyms shortest first
RECURSIVE AcronymsOfLenUp(_)
AcronymsOfLenUp(n) ==
    IF n > LongestAcronym THEN <<>>
    ELSE SelectSeq(VACCINE_ACRONYM_TO_COMPONENTS, LAMBDA e : Len(e.acronym) = n)
            \o AcronymsOfLenUp(n + 1)

AcronymsShortestFirst == AcronymsOfLenUp(1)

\* sorted(VACCINE_ACRONYM_TO_COMPONENTS.keys(), key=len, reverse=True)
AcronymsLongestFirst == AcronymsOfLenDown(LongestAcronym)

\* sorted(VACCINE_COMPONENT_KEYWORDS.items(), key=lambda x: -len(x[0]))
KeywordsLongestFirst == KeywordsOfLenDown(LongestKeyword)

\* pat in s
Contains(s, pat) ==
    \E i \in 1..(Len(s) - Len(pat) + 1) : SubSeq(s, i, i + Len(pat) - 1) = pat

\* re.search(r'\b' + re.escape(word) + r'\b', s) finds a match: word occurs
\* in s with a word boundary at both its ends
SearchWholeWord(word, s) ==
    \E i \in 1..(Len(s) - Len(word) + 1) :
        /\ SubSeq(s, i, i + Len(word) - 1) = word
        /\ IsWordChar(word[1]) # (i > 1 /\ IsWordChar(s[i - 1]))
        /\ IsWordChar(word[Len(word)])
              # (i + Len(word) <= Len(s) /\ IsWordChar(s[i + Len(word)]))

\* the loop of normalize_vaccine_components from keyword i on
RECURSIVE ExtractKeywords(_, _, _)
ExtractKeywords(i, text_upper, components) ==
    IF i > Len(KeywordsLongestFirst) THEN components
    ELSE IF Contains(text_upper, KeywordsLongestFirst[i].keyword)
    THEN ExtractKeywords(i + 1,
            replace(text_upper, KeywordsLongestFirst[i].keyword, <<SP>>),
            IF \E j \in DOMAIN components : components[j] = KeywordsLongestFirst[i].normalized
            THEN components
            ELSE Append(components, KeywordsLongestFirst[i].normalized))
    ELSE ExtractKeywords(i + 1, text_upper, components)

\* normalize_vaccine_components(text)
normalize_vaccine_components(vaccine_text) ==
    sorted(ExtractKeywords(1, upper(vaccine_text), <<>>))

\* the part of match_vaccine_text after the acronym loop found nothing
MatchComponents(components) ==
    IF components # <<>>
    THEN [acronym |-> get_vaccine_acronym(PyList(components)),
          components |-> PyList(components), by |-> "components"]
    ELSE [acronym |-> PyNone, components |-> PyNone, by |-> "none"]

\* return acronym, VACCINE_ACRONYM_TO_COMPONENTS[acronym]
AcronymFound(e) ==
    [acronym |-> Str(e.acronym), components |-> PyList(e.components), by |-> "acronym"]

\* the acronym loop of match_vaccine_text over the acronyms in the order given
MatchAcronyms(vaccine_text, acronyms) ==
    IF \E i \in DOMAIN acronyms : SearchWholeWord(acronyms[i].acronym, upper(vaccine_text))
    THEN AcronymFound(acronyms[CHOOSE i \in DOMAIN acronyms :
            /\ SearchWholeWord(acronyms[i].acronym, upper(vaccine_text))
            /\ \A j \in 1..(i - 1) :
                  ~SearchWholeWord(acronyms[j].acronym, upper(vaccine_text))])
    ELSE MatchComponents(normalize_vaccine_components(vaccine_text))

\* match_vaccine_text(text): the pair returned, and the part that returned it
match_vaccine_text(vaccine_text) == MatchAcronyms(vaccine_text, AcronymsLongestFirst)

\* what stands between two acronyms or two keywords of a text
MatchSeparators == {<<SP>>, <<L("-")>>}

\* the texts: two acronyms, two keywords, in upper and in lower case, and
\* texts with neither
MatchTexts ==
    {a \o sep \o b : a \in VaccineAcronyms, sep \in MatchSeparators, b \in VaccineAcronyms}
        \cup {lower(a) : a \in VaccineAcronyms}
        \cup {VACCINE_COMPONENT_KEYWORDS[i].keyword \o <<SP>> \o VACCINE_COMPONENT_KEYWORDS[j].keyword :
                 i \in DOMAIN VACCINE_COMPONENT_KEYWORDS, j \in DOMAIN VACCINE_COMPONENT_KEYWORDS}
        \cup {lower(VACCINE_COMPONENT_KEYWORDS[i].keyword) : i \in DOMAIN VACCINE_COMPONENT_KEYWORDS}
        \cup {<<>>, Phrase(<<"x", "y", "z">>)}

InitMatch ==
    /\ vaccine_arg \in MatchTexts
    /\ vaccine_pc = "text"
    /\ vaccine_out = [acronym |-> PyNone, components |-> PyNone, by |-> "none"]
    /\ ProcTextOnly /\ IdleNormalize /\ IdleSplit /\ IdleFlip /\ IdleMap /\ IdleWorkers
    /\ IdleForms /\ IdleRun

\* match_vaccine_text(text)
MatchVaccineText ==
    /\ vaccine_pc = "text"
    /\ vaccine_out' = match_vaccine_text(vaccine_arg)
    /\ vaccine_pc' = "matched"
    /\ UNCHANGED VaccineUnchanged

NextMatch == MatchVaccineText

SpecMatch == InitMatch /\ [][NextMatch]_vars

\* the acronyms of the table that stand as a whole word in the text
AcronymsPresent ==
    {i \in DOMAIN VACCINE_ACRONYM_TO_COMPONENTS :
        SearchWholeWord(VACCINE_ACRONYM_TO_COMPONENTS[i].acronym, upper(vaccine_arg))}

\* C21: when the text has an acronym of the table as a whole word, the acronym
\* returned is one of the longest of those it has, with its components of the
\* table; the component keywords are used only for a text that has none
LongestAcronymPresentReturned ==
    vaccine_pc = "matched" =>
        \A present \in {AcronymsPresent} :
            /\ present # {} =>
                  \E i \in present :
                      /\ vaccine_out.acronym = Str(VACCINE_ACRONYM_TO_COMPONENTS[i].acronym)
                      /\ vaccine_out.components
                            = PyList(VACCINE_ACRONYM_TO_COMPONENTS[i].components)
                      /\ \A j \in present :
                            Len(VACCINE_ACRONYM_TO_COMPONENTS[j].acronym)
                                <= Len(VACCINE_ACRONYM_TO_COMPONENTS[i].acronym)
            /\ vaccine_out.by = "components" => present = {}

\* C21 witness: a text with DTP-HIB, in which DTP and HIB stand as words too,
\* returned DTP-HIB
DtpHibNotDtp ==
    /\ vaccine_pc = "matched"
    /\ vaccine_arg = Phrase(<<"d", "t", "p", "-", "h", "i", "b">>)
    /\ Cardinality(AcronymsPresent) = 3
    /\ vaccine_out.acronym = Str(vaccine_arg)

----------------------------------------------------------------------------
(* food_scraper.py: the rows of the food catalog and main()                 *)

\* a row of the catalog
FoodRow(brand, product, company, reg) ==
    [brand_name |-> brand, product_name |-> product, company_name |-> company,
     registration_number |-> reg]

\* _row_key(row)
_row_key(row) ==
    <<lower(strip(row.brand_name)), lower(strip(row.product_name)),
      lower(strip(row.company_name)), lower(strip(row.registration_number))>>

\* the loop of _dedupe_rows from row i on
RECURSIVE DedupeFrom(_, _, _, _)
DedupeFrom(food_rows, i, seen_keys, unique) ==
    IF i > Len(food_rows) THEN unique
    ELSE IF _row_key(food_rows[i]) \in seen_keys
    THEN DedupeFrom(food_rows, i + 1, seen_keys, unique)
    ELSE DedupeFrom(food_rows, i + 1, seen_keys \cup {_row_key(food_rows[i])},
                    Append(unique, food_rows[i]))

_dedupe_rows(food_rows) == DedupeFrom(food_rows, 1, {}, <<>>)

\* the row with every field stripped, as _load_existing_catalog and
\* build_catalog make it
StrippedRow(row) ==
    FoodRow(strip(row.brand_name), strip(row.product_name), strip(row.company_name),
            strip(row.registration_number))

\* a row with a field that is not empty
HasField(row) ==
    row.brand_name # <<>> \/ row.product_name # <<>> \/ row.company_name # <<>>
        \/ row.registration_number # <<>>

\* build_catalog(rows)
build_catalog(food_rows) ==
    _dedupe_rows(SelectSeq([i \in 1..Len(food_rows) |-> StrippedRow(food_rows[i])], HasField))

\* a file that does not exist
NoFile == [exists |-> FALSE, rows |-> <<>>]
\* a file with these rows
FileOf(food_rows) == [exists |-> TRUE, rows |-> food_rows]

\* _load_existing_catalog(path)
_load_existing_catalog(file) ==
    IF ~file.exists THEN <<>>
    ELSE _dedupe_rows([i \in 1..Len(file.rows) |-> StrippedRow(file.rows[i])])

\* _purge_old_dated_files(outdir) on the two dated catalogs fda_food_<date>.csv:
\* the one of an earlier day goes when the one of today exists
Purged(files) ==
    IF files.out_csv.exists /\ files.older.exists THEN [files EXCEPT !.older = NoFile]
    ELSE files

\* existing_catalog_path: the catalog of today, else the most recent one
ExistingCatalog(files, force) ==
    IF files.out_csv.exists /\ ~force THEN files.out_csv
    ELSE IF ~force /\ files.older.exists THEN files.older
    ELSE NoFile

\* the files after the lines that load or discard the existing catalog
AfterDiscard(files, force) ==
    IF ExistingCatalog(files, force).exists THEN files
    ELSE IF force /\ files.out_csv.exists THEN [files EXCEPT !.out_csv = NoFile]
    ELSE files

SampleRowA ==
    FoodRow(<<T("milo")>>, <<T("choco"), SP, T("drink")>>, <<T("nestle")>>,
            <<U("fr"), L("-"), L("5")>>)
SampleRowB ==
    FoodRow(<<T("bear"), SP, T("brand")>>, <<T("milk")>>, <<T("nestle")>>,
            <<U("fr"), L("-"), L("500")>>)
\* the first row as another page of the site writes it
SampleRowAUpper ==
    FoodRow(<<U("milo")>>, <<U("choco"), SP, U("drink")>>, <<U("nestle")>>,
            <<U("fr"), L("-"), L("5"), SP>>)
BlankRow == FoodRow(<<>>, <<>>, <<>>, <<SP>>)

\* what the catalog files can hold when main starts
StoredCatalogs ==
    {NoFile, FileOf(<<>>), FileOf(<<SampleRowA>>), FileOf(<<SampleRowA, SampleRowB>>),
     FileOf(<<BlankRow>>)}

\* what _fetch_total_entries can return: None, or the total of the page
TotalsAdvertised == {PyNone, PyInt(0), PyInt(1), PyInt(2), PyInt(8)}

\* what the export request can end in: an exception or an HTML content type,
\* an HTML body, a file that cannot be parsed, or rows
ExportOutcomes ==
    {[kind |-> k, rows |-> <<>>] : k \in {"request_failed", "html_type", "html_body", "unreadable"}}
        \cup {[kind |-> "rows", rows |-> r] :
                r \in {<<SampleRowA>>, <<SampleRowA, SampleRowB>>,
                       <<SampleRowA, SampleRowAUpper, SampleRowB>>}}

\* _download_export_if_needed: download_rows (None as <<"none">>), whether the
\* export file is left in the output directory, and the error
_download_export_if_needed(total_remote, export) ==
    IF export.kind \in {"request_failed", "html_type"}
    THEN [rows |-> PyNone, written |-> FALSE, error |-> export.kind]
    ELSE IF export.kind \in {"html_body", "unreadable"}
    THEN [rows |-> PyNone, written |-> TRUE, error |-> export.kind]
    ELSE IF total_remote # PyNone /\ Len(_dedupe_rows(export.rows)) < total_remote.n
            /\ total_remote.n - Len(_dedupe_rows(export.rows)) > 5
    THEN [rows |-> PyNone, written |-> TRUE, error |-> "missing_rows"]
    ELSE [rows |-> PyList(_dedupe_rows(export.rows)), written |-> TRUE, error |-> "none"]

\* what scrape_food_catalog can add to the existing rows
ScrapedRows == {<<>>, <<SampleRowAUpper>>, <<SampleRowB, SampleRowAUpper>>}

InitMain ==
    /\ run_pc = "main"
    /\ run_args \in [force : BOOLEAN, allow_scrape : BOOLEAN,
                     out_csv : StoredCatalogs, older : {NoFile, FileOf(<<SampleRowB>>)}]
    /\ run_files = [out_csv |-> run_args.out_csv, older |-> run_args.older, export |-> FALSE]
    /\ run_locals = [existing_rows |-> <<>>, download_needed |-> FALSE,
                     download_rows |-> PyNone, download_error |-> "none",
                     catalog_rows |-> <<>>]
    /\ run_result = Ret(PyNone)
    /\ ProcTextOnly /\ IdleNormalize /\ IdleSplit /\ IdleFlip /\ IdleMap /\ IdleWorkers
    /\ IdleForms /\ IdleVaccine

RunUnchanged ==
    <<run_args, formVars, vaccineVars, normVars, splitVars, flipVars, procVars, mapVars,
      workerVars>>

\* main up to the choice between the cached rows and a refresh: the purge, the
\* search for an existing catalog, its rows, and the discard under --force
MainLoadExisting ==
    /\ run_pc = "main"
    /\ run_files' = AfterDiscard(Purged(run_files), run_args.force)
    /\ run_locals' = [run_locals EXCEPT !.existing_rows =
                        _load_existing_catalog(ExistingCatalog(Purged(run_files), run_args.force))]
    /\ run_pc' = "loaded"
    /\ UNCHANGED <<run_result, RunUnchanged>>

\* if existing_rows and not args.force: the cached rows are the catalog
MainUseCache ==
    /\ run_pc = "loaded"
    /\ run_locals.existing_rows # <<>> /\ ~run_args.force
    /\ run_locals' = [run_locals EXCEPT !.catalog_rows = run_locals.existing_rows]
    /\ run_pc' = "catalog"
    /\ UNCHANGED <<run_files, run_result, RunUnchanged>>

\* what follows a download that gave no rows
AfterFailedDownload(locals, allow_scrape, scraped) ==
    IF ~locals.download_needed
    THEN [pc |-> "catalog", catalog_rows |-> locals.existing_rows, flushed |-> FALSE]
    ELSE IF ~allow_scrape
    THEN IF locals.existing_rows # <<>>
         THEN [pc |-> "catalog", catalog_rows |-> locals.existing_rows, flushed |-> FALSE]
         ELSE [pc |-> "raised", catalog_rows |-> <<>>, flushed |-> FALSE]
    ELSE IF locals.existing_rows \o scraped = <<>>
    THEN [pc |-> "raised", catalog_rows |-> <<>>, flushed |-> FALSE]
    ELSE [pc |-> "catalog",
          catalog_rows |->
              locals.existing_rows
                \o DedupeFrom(scraped, 1,
                              {_row_key(locals.existing_rows[i]) :
                                  i \in DOMAIN locals.existing_rows}, <<>>),
          flushed |->
              DedupeFrom(scraped, 1,
                         {_row_key(locals.existing_rows[i]) :
                             i \in DOMAIN locals.existing_rows}, <<>>) # <<>>]

\* the else branch: the total of the site, the export, and what main does with
\* its outcome: the rows of the export, the cached rows, the scrape (here by
\* the rows it returns, flushed as they came) or the RuntimeError
MainRefresh ==
    /\ run_pc = "loaded"
    /\ ~(run_locals.existing_rows # <<>> /\ ~run_args.force)
    /\ \E total_remote \in TotalsAdvertised, export \in ExportOutcomes, scraped \in ScrapedRows :
       \E needed \in {(run_locals.existing_rows = <<>>)
                        \/ (total_remote # PyNone
                            /\ Len(run_locals.existing_rows) < total_remote.n)} :
       \E dl \in {IF needed THEN _download_export_if_needed(total_remote, export)
                  ELSE [rows |-> PyNone, written |-> run_files.export, error |-> "none"]} :
       \E locals \in {[run_locals EXCEPT !.download_needed = needed,
                                         !.download_rows = dl.rows,
                                         !.download_error = dl.error]} :
          IF dl.rows # PyNone
          THEN /\ run_locals' = [locals EXCEPT !.catalog_rows = dl.rows.s]
               /\ run_files' = [run_files EXCEPT !.export = dl.written]
               /\ run_pc' = "catalog"
               /\ UNCHANGED run_result
          ELSE \E next \in {AfterFailedDownload(locals, run_args.allow_scrape, scraped)} :
               /\ run_locals' = [locals EXCEPT !.catalog_rows = next.catalog_rows]
               /\ run_files' =
                    [run_files EXCEPT
                        !.export = dl.written,
                        !.out_csv = IF next.flushed
                                    THEN FileOf(build_catalog(next.catalog_rows)) ELSE @]
               /\ run_pc' = next.pc
               /\ run_result' = IF next.pc = "raised" THEN Raise ELSE run_result
    /\ UNCHANGED RunUnchanged

\* catalog = build_catalog(catalog_rows); _flush(catalog); ...; return 0
MainWrite ==
    /\ run_pc = "catalog"
    /\ run_files' = [run_files EXCEPT !.out_csv = FileOf(build_catalog(run_locals.catalog_rows))]
    /\ run_result' = Ret(PyInt(0))
    /\ run_pc' = "returned"
    /\ UNCHANGED <<run_locals, RunUnchanged>>

NextMain == MainLoadExisting \/ MainUseCache \/ MainRefresh \/ MainWrite

SpecMain == InitMain /\ [][NextMain]_vars

\* C23: a run whose export download was needed and failed, without
\* --allow-scrape, and that found catalog rows stored when it started, returns,
\* and the catalog it leaves has the rows that were stored; it does not raise
\* after having discarded the catalog
FailedDownloadKeepsStoredRows ==
    (/\ run_pc \in {"returned", "raised"}
     /\ run_locals.download_needed /\ run_locals.download_rows = PyNone
     /\ ~run_args.allow_scrape
     /\ build_catalog(_load_existing_catalog(run_args.out_csv)) # <<>>)
        => /\ run_pc = "returned"
           /\ run_files.out_csv = FileOf(build_catalog(_load_existing_catalog(run_args.out_csv)))

----------------------------------------------------------------------------
(* drug_scraper.fetch_csv_export: the raw directory holds at most one file   *)
(* FDA_PH_DRUGS_<date>.csv per date; a date is a day number                  *)

MaxDate == 3

RawDates == 1..MaxDate

\* a raw file: absent, a text without rows, or a text with rows
RawFileStates == {"absent", "empty", "rows"}

\* _existing_raw_dates(raw_dir): the dates of the files, sorted
RECURSIVE DatesUpTo(_, _)
DatesUpTo(raw, d) ==
    IF d = 0 THEN <<>>
    ELSE IF raw[d] # "absent" THEN Append(DatesUpTo(raw, d - 1), d)
    ELSE DatesUpTo(raw, d - 1)

_existing_raw_dates(raw) == DatesUpTo(raw, MaxDate)

\* latest_local_date = existing[-1][0] if existing else None
LatestLocalDate(raw) ==
    IF _existing_raw_dates(raw) = <<>> THEN PyNone
    ELSE PyInt(_existing_raw_dates(raw)[Len(_existing_raw_dates(raw))])

\* what the landing page can give: an error of the request, a page without
\* an "as of" date, or a date
LandingOutcomes ==
    {[ok |-> FALSE, as_of |-> PyNone], [ok |-> TRUE, as_of |-> PyNone]}
        \cup {[ok |-> TRUE, as_of |-> PyInt(d)] : d \in RawDates}

\* what the export request can give
ExportResponses == {"error", "empty", "rows"}

NoExportRun ==
    [raised |-> FALSE, as_of |-> 0, target_date |-> 0, requested |-> FALSE,
     downloaded |-> FALSE, parsed |-> "absent"]

\* rows = _parse_csv_rows(text.splitlines()); return rows, target_date, raw_path, downloaded
ParseAndReturn(raw, run) ==
    IF run.parsed = "empty" THEN [run |-> [run EXCEPT !.raised = TRUE], raw |-> raw]
    ELSE [run |-> run, raw |-> raw]

\* a call that asks for the export whatever the raw directory holds
fetch_always(raw, landing, export) ==
    IF ~landing.ok \/ landing.as_of = PyNone
    THEN [run |-> [NoExportRun EXCEPT !.raised = TRUE], raw |-> raw]
    ELSE IF export = "error"
    THEN [run |-> [NoExportRun EXCEPT !.raised = TRUE, !.as_of = landing.as_of.n,
                                      !.target_date = landing.as_of.n,
                                      !.requested = TRUE],
          raw |-> raw]
    ELSE ParseAndReturn([raw EXCEPT ![landing.as_of.n] = export],
                        [NoExportRun EXCEPT !.as_of = landing.as_of.n,
                                            !.target_date = landing.as_of.n,
                                            !.requested = TRUE, !.downloaded = TRUE,
                                            !.parsed = export])

\* the branch that reuses latest_local_date
ReuseCached(raw, run, latest) ==
    IF raw[latest] = "absent"
    THEN [run |-> [run EXCEPT !.raised = TRUE, !.target_date = latest], raw |-> raw]
    ELSE ParseAndReturn(raw, [run EXCEPT !.target_date = latest, !.parsed = raw[latest]])

\* the branch for the date of the site: the file of that date, else the export
FetchTarget(raw, run, export) ==
    IF raw[run.target_date] # "absent"
    THEN ParseAndReturn(raw, [run EXCEPT !.parsed = raw[run.target_date]])
    ELSE IF export = "error"
    THEN [run |-> [run EXCEPT !.raised = TRUE, !.requested = TRUE], raw |-> raw]
    ELSE ParseAndReturn([raw EXCEPT ![run.target_date] = export],
                        [run EXCEPT !.requested = TRUE, !.downloaded = TRUE,
                                    !.parsed = export])

\* fetch_csv_export(): what it returns or that it raised, and the raw files after
fetch_csv_export(raw, landing, export) ==
    IF ~landing.ok \/ landing.as_of = PyNone
    THEN [run |-> [NoExportRun EXCEPT !.raised = TRUE], raw |-> raw]
    ELSE IF Truthy(LatestLocalDate(raw)) /\ LatestLocalDate(raw).n >= landing.as_of.n
    THEN ReuseCached(raw, [NoExportRun EXCEPT !.as_of = landing.as_of.n],
                     LatestLocalDate(raw).n)
    ELSE FetchTarget(raw, [NoExportRun EXCEPT !.as_of = landing.as_of.n,
                                              !.target_date = landing.as_of.n],
                     export)

InitExport ==
    /\ run_pc = "fetch_csv_export"
    /\ run_args \in [RawDates -> RawFileStates]
    /\ run_files = run_args
    /\ run_locals = NoExportRun
    /\ run_result = Ret(PyNone)
    /\ ProcTextOnly /\ IdleNormalize /\ IdleSplit /\ IdleFlip /\ IdleMap /\ IdleWorkers
    /\ IdleForms /\ IdleVaccine

\* the whole call
FetchCsvExport ==
    /\ run_pc = "fetch_csv_export"
    /\ \E landing \in LandingOutcomes, export \in ExportResponses :
       \E done \in {fetch_csv_export(run_files, landing, export)} :
          /\ run_files' = done.raw
          /\ run_locals' = done.run
          /\ run_result' = IF done.run.raised THEN Raise ELSE Ret(PyInt(done.run.target_date))
          /\ run_pc' = IF done.run.raised THEN "raised" ELSE "returned"
    /\ UNCHANGED RunUnchanged

NextExport == FetchCsvExport

SpecExport == InitExport /\ [][NextExport]_vars

\* C24: a call that found a raw file at least as new as the date of the site
\* returns that latest file without an export request; the export is requested
\* only when the raw directory had no file of the target date; downloaded is
\* True exactly when the export was requested and its file written in this
\* call; and the path returned is of an existing file of the date returned
ExportReusedOrDownloadedOnce ==
    /\ (run_pc \in {"returned", "raised"} /\ run_locals.as_of # 0) =>
          /\ (Truthy(LatestLocalDate(run_args)) /\ LatestLocalDate(run_args).n >= run_locals.as_of)
                => /\ ~run_locals.requested
                   /\ run_files = run_args
                   /\ run_locals.target_date = LatestLocalDate(run_args).n
                   /\ run_args[run_locals.target_date] = "rows" => run_pc = "returned"
          /\ run_locals.requested => run_args[run_locals.target_date] = "absent"
    /\ run_pc = "returned" =>
          /\ run_locals.downloaded
                <=> /\ run_locals.requested
                    /\ run_args[run_locals.target_date] = "absent"
                    /\ run_files[run_locals.target_date] # "absent"
          /\ run_files[run_locals.target_date] # "absent"
          /\ run_result = Ret(PyInt(run_locals.target_date))

\* C24 witness: a raw file newer than the date of the site was reused although
\* there was none of that date
NewerCachedExportReused ==
    /\ run_pc = "returned"
    /\ run_args[run_locals.as_of] = "absent"
    /\ run_locals.target_date > run_locals.as_of
    /\ ~run_locals.downloaded /\ ~run_locals.requested
    /\ run_files = run_args

----------------------------------------------------------------------------
(* Form extraction and the order of FORM_WORDS                             *)

\* C25: the form keyword and route build_brand_map inferred for a row in this
\* process are those every other process infers for it, whatever order the
\* keys of equal length have in its FORM_WORDS
FormIndependentOfSetOrder ==
    \A i \in 1..Len(rows) :
        (i <= row_idx /\ rows[i].is_dict /\ rows[i].dosage_form.t = "str") =>
            \A form_words \in FormWordOrders :
                infer_form_and_route(rows[i].dosage_form, form_words)
                    = infer_form_and_route(rows[i].dosage_form, FORM_WORDS)

----------------------------------------------------------------------------
(* The salt words of the input of extract_base_and_salts                   *)

\* C26: every token of the normalized input that is a word of the salt
\* vocabulary other than SALT and SALTS is, in upper case, a word of the base
\* or an entry of the salts of the split
SaltWordsAllKept ==
    (split_pc = "done" /\ split_arg.t = "str") =>
        \A tokens \in {split(normalize_text(split_arg))} :
            \A i \in 1..Len(tokens) :
                lower(tokens[i]) \in SALT_TOKEN_WORDS \ NoiseSaltWords
                    => \/ \E j \in 1..Len(split_out.salts) : split_out.salts[j] = upper(tokens[i])
                       \/ \E j \in 1..Len(split(split_out.base)) :
                             split(split_out.base)[j] = upper(tokens[i])

----------------------------------------------------------------------------
(* The route of the single-route table and the primary route               *)

\* routes_forms.FORM_TO_ROUTE over all keys of unified_constants.FORM_TO_ROUTE
FORM_TO_ROUTE_LOWER ==
    [k \in {lower(u) : u \in DOMAIN UNIFIED_FORM_TO_ROUTE} |->
        lower(UNIFIED_FORM_TO_ROUTE[upper(k)])]

\* route = FORM_TO_ROUTE.get(form_token) of infer_form_and_route
EmittedRoute(form_token) == DictGet(FORM_TO_ROUTE_LOWER, form_token)

\* C27: for a form keyword of the single-route table, the route of that table
\* is, up to letter case, the route infer_route_from_form returns for it
EmittedRouteIsPrimaryRoute ==
    (form_pc \in {"primary", "routes"} /\ form_a \in DOMAIN FORM_TO_ROUTE_LOWER) =>
        /\ ~form_out.primary.raised
        /\ form_out.primary.value.t = "str"
        /\ upper(form_out.primary.value.s) = upper(EmittedRoute(form_a).s)

----------------------------------------------------------------------------
(* build_brand_map applied to its own output                               *)

\* C28: build_brand_map applied to the list it returned returns that list:
\* the second call does not raise, flags no row as flipped, drops no row, and
\* emits every form and route as it got them
BrandMapIdempotent ==
    run_pc = "again" =>
        /\ map_pc # "raised"
        /\ flip_count = 0
        /\ map_pc \in {"loop", "done"} =>
              out = SubSeq(run_locals.first, 1, row_idx - 1)
        /\ map_pc = "done" => result = run_locals.first

\* C28 witness: a batch of which the first call swapped a row, recognized its
\* form and dropped its duplicate went through the second call
SwappedBatchMappedTwice ==
    /\ run_pc = "again" /\ map_pc = "done"
    /\ run_locals.flips = 1
    /\ Len(run_locals.rows) = 2 /\ Len(result) = 1
    /\ result[1].brand_name = Norvasc /\ result[1].generic_name = Amlodipine
    /\ result[1].dosage_form = lower(Tablet)

----------------------------------------------------------------------------
(* food_scraper.py: scrape_food_catalog and _scrape_paginated              *)

\* the page size of the model, for the "100" of PAGE_SIZES
RecPerPage == 2

\* pages requested at most
MaxPages == 3

\* the rows a page of the site can show
PageRows == SeqsUpTo({SampleRowA, SampleRowB, SampleRowAUpper}, RecPerPage)

\* the total a page can advertise in its record summary
PageTotals == {PyNone, PyInt(1), PyInt(2), PyInt(8)}

\* existing_rows: None, or rows with pairwise distinct keys
ExistingRows == {<<>>, <<SampleRowA>>, <<SampleRowAUpper, SampleRowB>>}

\* a loop body that appends every row
AddAll(acc, row) ==
    [seen |-> acc.seen \cup {_row_key(row)}, aggregated |-> Append(acc.aggregated, row),
     new_rows |-> acc.new_rows + 1]

\* the body of "for row in rows"
AddUnseen(acc, row) ==
    IF _row_key(row) \in acc.seen THEN acc
    ELSE [seen |-> acc.seen \cup {_row_key(row)}, aggregated |-> Append(acc.aggregated, row),
          new_rows |-> acc.new_rows + 1]

\* "for row in rows" from row i on
RECURSIVE AddPage(_, _, _)
AddPage(page_rows, i, acc) ==
    IF i > Len(page_rows) THEN acc
    ELSE AddPage(page_rows, i + 1, AddUnseen(acc, page_rows[i]))

\* the first two breaks of the loop: no rows, or the first registration
\* number of the page before
PageRepeats(locals, page_rows) ==
    IF page_rows = <<>> THEN TRUE
    ELSE /\ locals.previous_first_reg # PyNone
         /\ Str(page_rows[1].registration_number) = locals.previous_first_reg

\* expected_total after the page was parsed
ExpectedAfter(locals, total) ==
    IF locals.expected_total = PyNone /\ total # PyNone THEN total
    ELSE locals.expected_total

\* the last two breaks: the total is reached, or the page is short
PageIsLast(expected_total, aggregated, page_rows) ==
    IF expected_total # PyNone /\ Len(aggregated) >= expected_total.n THEN TRUE
    ELSE Len(page_rows) < RecPerPage

\* start = min(next_candidates), else start += len(rows)
NextStart(start, page_rows, has_link) ==
    IF has_link THEN start + RecPerPage ELSE start + Len(page_rows)

InitScrape ==
    /\ run_pc = "scrape_food_catalog"
    /\ run_args \in [existing_rows : ExistingRows, flush : BOOLEAN]
    /\ run_files = <<>>
    /\ run_locals = [aggregated |-> <<>>, seen |-> {}, expected_total |-> PyNone,
                     previous_first_reg |-> PyNone, start |-> 1, pages |-> 0,
                     new_rows |-> 0, flushes |-> 0]
    /\ run_result = Ret(PyNone)
    /\ ProcTextOnly /\ IdleNormalize /\ IdleSplit /\ IdleFlip /\ IdleMap /\ IdleWorkers
    /\ IdleForms /\ IdleVaccine

\* scrape_food_catalog up to the call of _scrape_paginated
ScrapeStart ==
    /\ run_pc = "scrape_food_catalog"
    /\ run_locals' = [run_locals EXCEPT
                         !.aggregated = run_args.existing_rows,
                         !.seen = {_row_key(run_args.existing_rows[i]) :
                                      i \in 1..Len(run_args.existing_rows)}]
    /\ run_pc' = "page"
    /\ UNCHANGED <<run_files, run_result, RunUnchanged>>

\* one pass of the loop of _scrape_paginated for a page without rows or a
\* repeated page
ScrapeRepeatedPage ==
    /\ run_pc = "page"
    /\ run_locals.pages < MaxPages
    /\ \E page_rows \in PageRows, total \in PageTotals :
          /\ PageRepeats(run_locals, page_rows)
          /\ run_locals' = [run_locals EXCEPT
                               !.expected_total = ExpectedAfter(run_locals, total),
                               !.pages = @ + 1, !.new_rows = 0]
    /\ run_pc' = "after_loop"
    /\ UNCHANGED <<run_files, run_result, RunUnchanged>>

\* one pass of the loop for a page with rows: the unseen rows are appended,
\* flush is called when there were some, and the loop ends or goes on
ScrapePage ==
    /\ run_pc = "page"
    /\ run_locals.pages < MaxPages
    /\ \E page_rows \in PageRows, total \in PageTotals, has_link \in BOOLEAN :
          /\ ~PageRepeats(run_locals, page_rows)
          /\ \E acc \in {AddPage(page_rows, 1,
                                 [seen |-> run_locals.seen,
                                  aggregated |-> run_locals.aggregated,
                                  new_rows |-> 0])} :
             \E last \in {PageIsLast(ExpectedAfter(run_locals, total), acc.aggregated,
                                     page_rows)} :
                /\ run_locals' =
                      [run_locals EXCEPT
                          !.expected_total = ExpectedAfter(run_locals, total),
                          !.previous_first_reg = Str(page_rows[1].registration_number),
                          !.seen = acc.seen,
                          !.aggregated = acc.aggregated,
                          !.new_rows = acc.new_rows,
                          !.flushes = IF acc.new_rows # 0 /\ run_args.flush THEN @ + 1 ELSE @,
                          !.pages = @ + 1,
                          !.start = IF last THEN @ ELSE NextStart(@, page_rows, has_link)]
                /\ run_files' = IF acc.new_rows # 0 /\ run_args.flush
                                THEN acc.aggregated ELSE run_files
                /\ run_pc' = IF last THEN "after_loop" ELSE "page"
    /\ UNCHANGED <<run_result, RunUnchanged>>

\* scrape_food_catalog after _scrape_paginated returned
ScrapeReturn ==
    /\ run_pc = "after_loop"
    /\ IF run_locals.aggregated = <<>>
       THEN run_pc' = "raised" /\ run_result' = Raise
       ELSE run_pc' = "returned" /\ run_result' = Ret(PyInt(Len(run_locals.aggregated)))
    /\ UNCHANGED <<run_files, run_locals, RunUnchanged>>

NextScrape == ScrapeStart \/ ScrapeRepeatedPage \/ ScrapePage \/ ScrapeReturn

SpecScrape == InitScrape /\ [][NextScrape]_vars

\* the keys of a list of rows
KeysOf(food_rows) == {_row_key(food_rows[i]) : i \in 1..Len(food_rows)}

\* C29: once the scrape has started, no two rows of aggregated have the same
\* key, seen is the set of the keys of aggregated, and the existing rows are
\* its first rows; a step keeps the rows aggregated before as the first rows,
\* and flush is called only in a step that appended a row
AggregatedRowsUniqueAndKept ==
    /\ [](run_pc \in {"page", "after_loop", "returned", "raised"} =>
            /\ \A i, j \in 1..Len(run_locals.aggregated) :
                  i # j => _row_key(run_locals.aggregated[i])
                               # _row_key(run_locals.aggregated[j])
            /\ run_locals.seen = KeysOf(run_locals.aggregated)
            /\ Len(run_locals.aggregated) >= Len(run_args.existing_rows)
            /\ SubSeq(run_locals.aggregated, 1, Len(run_args.existing_rows))
                  = run_args.existing_rows)
    /\ [][run_pc = "page" =>
            /\ Len(run_locals'.aggregated) >= Len(run_locals.aggregated)
            /\ SubSeq(run_locals'.aggregated, 1, Len(run_locals.aggregated))
                  = run_locals.aggregated
            /\ run_locals'.flushes # run_locals.flushes =>
                  /\ Len(run_locals'.aggregated) > Len(run_locals.aggregated)
                  /\ run_files' = run_locals'.aggregated]_vars

\* C29 witness: a scrape that started from the stored row of a product got a
\* page with that product in upper case and a new one, and kept two rows
RepeatedProductSkipped ==
    /\ run_pc = "returned"
    /\ run_args.existing_rows = <<SampleRowA>>
    /\ run_args.flush
    /\ run_locals.pages = 2 /\ run_locals.flushes = 1
    /\ run_locals.aggregated = <<SampleRowA, SampleRowB>>
    /\ run_files = run_locals.aggregated

----------------------------------------------------------------------------
(* food_scraper._fetch_page                                                *)

\* attempts of one call in the model
MaxAttempts == 4

\* backoff: float = 5.0
Backoff == 5

\* a number of seconds: finite, or float("inf")
Seconds(n) == [inf |-> FALSE, n |-> n]
Forever == [inf |-> TRUE, n |-> 0]

\* max(wait, other)
MaxSeconds(wait, other) ==
    IF wait.inf THEN wait
    ELSE IF other.inf THEN other
    ELSE IF other.n > wait.n THEN other ELSE wait

\* the Retry-After headers of the model: none, seconds, an HTTP date, and a
\* text float() reads as infinity
RetryAfterHeaders == {"", "1", "120", "Wed, 21 Oct 2015 07:28:00 GMT", "inf"}

\* float(retry_after): the number, or the ValueError
ParseFloat(retry_after) ==
    CASE retry_after = "1" -> Ret(Seconds(1))
      [] retry_after = "120" -> Ret(Seconds(120))
      [] retry_after = "inf" -> Ret(Forever)
      [] OTHER -> Raise

\* what a request can come to: the page, an exception that is no HTTPError,
\* or the HTTPError of raise_for_status
RequestOutcomes ==
    {[kind |-> "ok", status |-> 200, retry_after |-> ""],
     [kind |-> "error", status |-> 0, retry_after |-> ""]}
        \cup {[kind |-> "http", status |-> 429, retry_after |-> h] : h \in RetryAfterHeaders}
        \cup {[kind |-> "http", status |-> s, retry_after |-> ""] : s \in {403, 404, 500}}

\* the wait of a 429
WaitTooMany(outcome, attempt, wait) ==
    IF outcome.retry_after # ""
    THEN IF ParseFloat(outcome.retry_after).raised
         THEN MaxSeconds(wait, Seconds(Backoff * (attempt + 1)))
         ELSE MaxSeconds(wait, ParseFloat(outcome.retry_after).value)
    ELSE MaxSeconds(wait, Seconds(Backoff * (attempt + 1)))

\* wait = backoff * attempt, raised for the HTTP statuses 429, 5xx and 403
WaitBefore(outcome, attempt) ==
    IF outcome.kind # "http" THEN Seconds(Backoff * attempt)
    ELSE IF outcome.status = 429 THEN WaitTooMany(outcome, attempt, Seconds(Backoff * attempt))
    ELSE IF outcome.status >= 500 \/ outcome.status = 403
    THEN MaxSeconds(Seconds(Backoff * attempt), Seconds(Backoff * (attempt + 2)))
    ELSE Seconds(Backoff * attempt)

\* retries: None, or a number
RetriesAsked == {PyNone, PyInt(0), PyInt(1), PyInt(2), PyInt(3)}

InitFetch ==
    /\ run_pc = "_fetch_page"
    /\ run_args \in [retries : RetriesAsked]
    /\ run_files = <<>>
    /\ run_locals = [attempt |-> 0, cleared |-> 0, wait |-> Seconds(0),
                     outcome |-> [kind |-> "none", status |-> 0, retry_after |-> ""]]
    /\ run_result = Ret(PyNone)
    /\ ProcTextOnly /\ IdleNormalize /\ IdleSplit /\ IdleFlip /\ IdleMap /\ IdleWorkers
    /\ IdleForms /\ IdleVaccine

\* a pass of the loop whose request succeeds: return response.text
FetchSucceeds ==
    /\ run_pc = "_fetch_page"
    /\ run_locals.attempt < MaxAttempts
    /\ \E outcome \in {o \in RequestOutcomes : o.kind = "ok"} :
          run_locals' = [run_locals EXCEPT !.attempt = @ + 1, !.outcome = outcome]
    /\ run_pc' = "returned"
    /\ run_result' = Ret(Str(<<L("page")>>))
    /\ UNCHANGED <<run_files, RunUnchanged>>

\* a pass of the loop whose request fails: the exception is raised again, or
\* the cookies are cleared and time.sleep(wait) is called, which raises
\* OverflowError for an infinite wait
FetchFails ==
    /\ run_pc = "_fetch_page"
    /\ run_locals.attempt < MaxAttempts
    /\ \E outcome \in {o \in RequestOutcomes : o.kind # "ok"} :
       \E attempt \in {run_locals.attempt + 1} :
          IF run_args.retries # PyNone /\ attempt >= run_args.retries.n
          THEN /\ run_locals' = [run_locals EXCEPT !.attempt = attempt, !.outcome = outcome]
               /\ run_pc' = "raised"
               /\ run_result' = Raise
          ELSE /\ run_locals' = [run_locals EXCEPT !.attempt = attempt, !.outcome = outcome,
                                                   !.cleared = @ + 1,
                                                   !.wait = WaitBefore(outcome, attempt)]
               /\ IF WaitBefore(outcome, attempt).inf
                  THEN run_pc' = "raised" /\ run_result' = Raise
                  ELSE run_pc' = "_fetch_page" /\ UNCHANGED run_result
    /\ UNCHANGED <<run_files, RunUnchanged>>

NextFetch == FetchSucceeds \/ FetchFails

SpecFetch == InitFetch /\ [][NextFetch]_vars

\* C30: a call returns only after a request that succeeded; a call with
\* retries = n makes at most n requests and raises only at the n-th; a call
\* with retries = None does not raise, and has cleared the cookies and waited
\* at least backoff times the attempt after every failed request
FetchPageRetriesAsAsked ==
    /\ run_pc = "returned" => run_locals.outcome.kind = "ok"
    /\ (run_pc \in {"_fetch_page", "returned", "raised"} /\ run_args.retries # PyNone) =>
          /\ run_locals.attempt <= run_args.retries.n
          /\ run_pc = "raised" => run_locals.attempt = run_args.retries.n
    /\ (run_pc \in {"_fetch_page", "returned", "raised"} /\ run_args.retries = PyNone) =>
          /\ run_pc # "raised"
          /\ (run_pc = "_fetch_page" /\ run_locals.attempt > 0) =>
                /\ run_locals.cleared = run_locals.attempt
                /\ ~run_locals.wait.inf
                /\ run_locals.wait.n >= Backoff * run_locals.attempt

====
